---- MODULE Spec2Model ----
(***************************************************************************)
(* Scheduling, load balancing and memory subsystem of bolt.cog:            *)
(*   - AdvancedAgentCoordinator (app/lib/cognitive/advanced-coordinator.ts) *)
(*   - InferenceCoordinator     (inference coordinator over GGML engines)   *)
(*   - MemoryManager            (agent-zero memory manager)                 *)
(*   - AgentNetworkCoordinator  (agent network message router)              *)
(* Every action is one synchronous turn of the JavaScript event loop: the  *)
(* code from a call (or from the resumption of an await) up to the next    *)
(* await.                                                                   *)
(***************************************************************************)
EXTENDS Integers, Sequences, FiniteSets, TLC

VARIABLES
    \* ---- AdvancedAgentCoordinator ----
    agentPool,           \* AgentPool: agents, activeAgents, idleAgents, busyAgents
    taskQueue,           \* TaskQueue: high, medium, low
    metrics,             \* CoordinationMetrics
    resultCache,         \* keys of the result cache (task ids)
    maxConcurrentTasks,  \* constructor argument
    executing,           \* processTasks calls suspended at `await executeTask`
    dispatchCount,       \* task id -> number of times it was handed to executeTask
    errorLog,            \* tasks reported to errorHandler.handleCognitiveError
    submittedTier,       \* tier each task id was submitted with
    \* ---- InferenceCoordinator ----
    config,              \* CoordinatorConfig
    engineStatus,        \* engine_0, engine_1, ... in insertion order; empty when cleared
    jobQueue,            \* InferenceJob[] waiting for an engine
    responseCache,       \* Map key -> CachedResponse, in insertion order
    infMetrics,          \* CoordinatorMetrics
    isRunning,
    lifecycle,           \* progress of initialize(), processQueue() and shutdown()
    running,             \* executeJob calls awaiting infer, and streams producing tokens
    waiters,             \* stream()/embed() calls inside waitForEngine
    promises,            \* job id -> state of the promise submit() returned
    returned,            \* what the latest submit() call returned synchronously
    now,                 \* Date.now(), in ticks of 150 s
    \* ---- MemoryManager ----
    memConfig,           \* MemoryConfig: enabled, maxMemories
    memories,            \* Map id -> Memory, in insertion order
    embeddings,          \* keys of the embeddings map
    storeCalls,          \* store() calls suspended at an await
    storeCount,          \* number of store() calls made (ids are never reused)
    today,               \* Date.now(), in days
    retrieval,           \* the latest retrieve() call: its arguments, position and result
    \* ---- AgentNetworkCoordinator ----
    networkAgents,       \* keys of the agents map, in insertion order
    messageQueue,        \* AgentMessage[] waiting for the next flush
    isProcessing,        \* single-flight flag of processMessageQueue
    flight,              \* the flush suspended at `await receiveMessage`
    delivered,           \* log of the receiveMessage calls made
    networkCount,        \* messages queued, flushes started, registry calls made
    inputCall,           \* the processInput call: its position and local variables
    eventHistory,        \* the error_occurred events logged, as agent ids
    \* ---- MultiAgentCoordinator and its AgentZero objects ----
    zeroAgents,          \* keys of the coordinator's agents map, in insertion order
    hierarchy,           \* parent id -> child ids
    zeroState,           \* every AgentZero object: status, subordinates, superior
    zeroRuns,            \* the run() calls in progress
    zeroCalls,           \* submitTask calls suspended at `await this.findBestAgent`
    zeroCount            \* tasks submitted, subordinates created, runs started

coordVars == <<agentPool, taskQueue, metrics, resultCache, maxConcurrentTasks,
               executing, dispatchCount, errorLog, submittedTier>>

infVars == <<config, engineStatus, jobQueue, responseCache, infMetrics, isRunning,
             lifecycle, running, waiters, promises, returned, now>>

memVars == <<memConfig, memories, embeddings, storeCalls, storeCount, today, retrieval>>

netVars == <<networkAgents, messageQueue, isProcessing, flight, delivered, networkCount,
             inputCall, eventHistory>>

zeroVars == <<zeroAgents, hierarchy, zeroState, zeroRuns, zeroCalls, zeroCount>>

vars == <<coordVars, infVars, memVars, netVars, zeroVars>>

----------------------------------------------------------------------------
(* Bounds of the model *)

MaxTasks == 3

MaxSubmits == 2

MaxWaiters == 2

MaxClock == 1

MaxStores == 4

MaxDays == 2
MaxRetrieves == 2

MaxMessages == 2

MaxRegistryCalls == 3

MaxInputs == 1

MaxZeroTasks == 2

MaxSubordinates == 2

----------------------------------------------------------------------------
(* Generic helpers for JavaScript's insertion-ordered Set and Map *)

Range(s) == {s[i] : i \in DOMAIN s}

\* Set.prototype.add on an insertion-ordered set
OrderedAdd(s, x) == IF x \in Range(s) THEN s ELSE Append(s, x)

\* Set.prototype.delete on an insertion-ordered set
OrderedDelete(s, x) == SelectSeq(s, LAMBDA y : y # x)

\* Map.prototype.set / delete on a map held as a function
MapSet(m, k, v) == [x \in DOMAIN m \cup {k} |-> IF x = k THEN v ELSE m[x]]

MapDelete(m, k) == [x \in DOMAIN m \ {k} |-> m[x]]

EmptyMap == [x \in {} |-> 0]

RECURSIVE SumOver(_, _)
SumOver(f, S) ==
    IF S = {} THEN 0
    ELSE LET x == CHOOSE y \in S : TRUE IN f[x] + SumOver(f, S \ {x})

----------------------------------------------------------------------------
(* AdvancedAgentCoordinator: the agents and tasks the environment offers *)

AgentIds == {"A", "B"}

Skills == {"x", "y"}

\* capabilities of each agent: skill name -> confidence, in tenths
Capabilities ==
    [a \in AgentIds |->
        CASE a = "A" -> ("x" :> 9)
          [] a = "B" -> ("x" :> 9 @@ "y" :> 5)]

Tiers == {"high", "medium", "low"}

\* the submissions the environment makes: required skills and tier
Submissions ==
    { [requiredSkills |-> {"x"}, priority |-> "high"],
      [requiredSkills |-> {"y"}, priority |-> "medium"],
      [requiredSkills |-> {"x", "y"}, priority |-> "low"] }

ConcurrencyLimits == {2}

\* Date.now() - startTime of an execution, in ms
Durations == {2}

NoAgent == "none"

----------------------------------------------------------------------------
(* AdvancedAgentCoordinator: pure parts *)

\* task.requiredSkills.every(skill => agent.capabilities.some(cap => cap.name === skill))
HasRequiredSkills(agent, task) ==
    \A skill \in task.requiredSkills : skill \in DOMAIN Capabilities[agent]

\* AgentScore without the early return for a missing skill
AgentScoreNoSkillCheck(agent, task, utilization) ==
    SumOver(Capabilities[agent], DOMAIN Capabilities[agent] \cap task.requiredSkills)
        - (IF agent \in DOMAIN utilization THEN utilization[agent] ELSE 0)

\* the score getBestAgentForTask gives one agent, in tenths (-10 is the code's -1)
AgentScore(agent, task, utilization) ==
    IF ~HasRequiredSkills(agent, task) THEN -10
    ELSE SumOver(Capabilities[agent], DOMAIN Capabilities[agent] \cap task.requiredSkills)
            - (IF agent \in DOMAIN utilization THEN utilization[agent] ELSE 0)

\* idle ids that are still in the registry, in the idle set's iteration order
AvailableAgents(pool) == SelectSeq(pool.idleAgents, LAMBDA id : id \in pool.agents)

\* getBestAgentForTask: stable sort by descending score, first element if its score > 0
getBestAgentForTask(pool, utilization, task) ==
    LET available == AvailableAgents(pool)
        score(i) == AgentScore(available[i], task, utilization)
    IN  IF available = <<>> THEN NoAgent
        ELSE LET best == CHOOSE i \in DOMAIN available :
                            \A j \in DOMAIN available :
                                \/ score(i) > score(j)
                                \/ score(i) = score(j) /\ i <= j
             IN  IF score(best) > 0 THEN available[best] ELSE NoAgent

markAgentBusy(pool, agentId) ==
    LET currentCount == IF agentId \in DOMAIN pool.busyAgents
                        THEN pool.busyAgents[agentId] ELSE 0
    IN  [pool EXCEPT !.idleAgents = OrderedDelete(@, agentId),
                     !.activeAgents = @ \cup {agentId},
                     !.busyAgents = MapSet(@, agentId, currentCount + 1)]

\* markAgentIdle that forgets to put the agent back into the idle set
markAgentIdleNoAdd(pool, agentId) ==
    LET currentCount == IF agentId \in DOMAIN pool.busyAgents
                        THEN pool.busyAgents[agentId] ELSE 0
    IN  IF currentCount <= 1
        THEN [pool EXCEPT !.busyAgents = MapDelete(@, agentId),
                          !.activeAgents = @ \ {agentId}]
        ELSE [pool EXCEPT !.busyAgents = MapSet(@, agentId, currentCount - 1)]

markAgentIdle(pool, agentId) ==
    LET currentCount == IF agentId \in DOMAIN pool.busyAgents
                        THEN pool.busyAgents[agentId] ELSE 0
    IN  IF currentCount <= 1
        THEN [pool EXCEPT !.busyAgents = MapDelete(@, agentId),
                          !.activeAgents = @ \ {agentId},
                          !.idleAgents = OrderedAdd(@, agentId)]
        ELSE [pool EXCEPT !.busyAgents = MapSet(@, agentId, currentCount - 1)]

RECURSIVE GCD(_, _)
GCD(a, b) == IF b = 0 THEN a ELSE GCD(b, a % b)

\* a JavaScript number that is a fraction of integers, in lowest terms, or one
\* of Infinity, -Infinity and NaN
Finite(num, den) ==
    LET g == GCD(IF num < 0 THEN -num ELSE num, den)
    IN  [kind |-> "finite", num |-> num \div g, den |-> den \div g]

Special(kind) == [kind |-> kind, num |-> 0, den |-> 1]

\* a * k for an integer k
Times(a, k) ==
    CASE a.kind = "finite" -> Finite(a.num * k, a.den)
      [] a.kind = "NaN" \/ k = 0 -> Special("NaN")
      [] a.kind = "Infinity" -> Special(IF k > 0 THEN "Infinity" ELSE "-Infinity")
      [] OTHER -> Special(IF k > 0 THEN "-Infinity" ELSE "Infinity")

\* a + k for an integer k
Plus(a, k) == IF a.kind = "finite" THEN Finite(a.num + k * a.den, a.den) ELSE a

\* a / k for an integer k >= 0: a division by 0 gives Infinity, -Infinity or NaN
DividedBy(a, k) ==
    CASE a.kind # "finite" -> a
      [] k > 0 -> Finite(a.num, a.den * k)
      [] a.num > 0 -> Special("Infinity")
      [] a.num < 0 -> Special("-Infinity")
      [] OTHER -> Special("NaN")

\* updateMetrics(success, duration): the counter, then the average over
\* completedTasks whether the task succeeded or not
updateMetrics(m, success, duration) ==
    LET counted == IF success THEN [m EXCEPT !.completedTasks = @ + 1]
                   ELSE [m EXCEPT !.failedTasks = @ + 1]
        totalCompleted == counted.completedTasks
        currentAvg == counted.averageTaskDuration
    IN  [counted EXCEPT !.averageTaskDuration =
            DividedBy(Plus(Times(currentAvg, totalCompleted - 1), duration),
                      totalCompleted)]

QueueIsEmpty(q) == q.high = <<>> /\ q.medium = <<>> /\ q.low = <<>>

\* high.shift() || medium.shift() || low.shift()
ShiftTask(q) ==
    IF q.high # <<>> THEN [task |-> Head(q.high), queue |-> [q EXCEPT !.high = Tail(@)]]
    ELSE IF q.medium # <<>>
         THEN [task |-> Head(q.medium), queue |-> [q EXCEPT !.medium = Tail(@)]]
         ELSE [task |-> Head(q.low), queue |-> [q EXCEPT !.low = Tail(@)]]

\* processTasks that drops a popped task for which no agent qualifies
processTasksDropUndispatchable(pool, queue, utilization, cache, limit) ==
    IF Cardinality(DOMAIN pool.busyAgents) >= limit \/ QueueIsEmpty(queue)
    THEN [pool |-> pool, queue |-> queue, started |-> <<>>]
    ELSE LET shifted == ShiftTask(queue)
             task == shifted.task
             agent == getBestAgentForTask(pool, utilization, task)
         IN  IF agent = NoAgent
             THEN [pool |-> pool, queue |-> shifted.queue, started |-> <<>>]
             ELSE [pool |-> markAgentBusy(pool, agent),
                   queue |-> shifted.queue,
                   started |-> <<[task |-> task, agent |-> agent,
                                  cached |-> task.id \in cache]>>]

\* processTasks that puts an undispatchable task at the head of the medium tier
processTasksRequeueAtHead(pool, queue, utilization, cache, limit) ==
    IF Cardinality(DOMAIN pool.busyAgents) >= limit \/ QueueIsEmpty(queue)
    THEN [pool |-> pool, queue |-> queue, started |-> <<>>]
    ELSE LET shifted == ShiftTask(queue)
             task == shifted.task
             agent == getBestAgentForTask(pool, utilization, task)
         IN  IF agent = NoAgent
             THEN [pool |-> pool,
                   queue |-> [shifted.queue EXCEPT !.medium = <<task>> \o @],
                   started |-> <<>>]
             ELSE [pool |-> markAgentBusy(pool, agent),
                   queue |-> shifted.queue,
                   started |-> <<[task |-> task, agent |-> agent,
                                  cached |-> task.id \in cache]>>]

\* processTasks up to its await: the pool and queue it leaves, and the execution
\* it started (none when at capacity, when the queue is empty or when no agent
\* qualifies; in the last case the task goes to the tail of the medium tier)
processTasks(pool, queue, utilization, cache, limit) ==
    IF Cardinality(DOMAIN pool.busyAgents) >= limit \/ QueueIsEmpty(queue)
    THEN [pool |-> pool, queue |-> queue, started |-> <<>>]
    ELSE LET shifted == ShiftTask(queue)
             task == shifted.task
             agent == getBestAgentForTask(pool, utilization, task)
         IN  IF agent = NoAgent
             THEN [pool |-> pool,
                   queue |-> [shifted.queue EXCEPT !.medium = Append(@, task)],
                   started |-> <<>>]
             ELSE [pool |-> markAgentBusy(pool, agent),
                   queue |-> shifted.queue,
                   started |-> <<[task |-> task, agent |-> agent,
                                  cached |-> task.id \in cache]>>]

\* dispatchCount after the executions in `started` (at most one) were handed to
\* executeTask
Counted(count, started) ==
    IF started = <<>> THEN count
    ELSE LET id == started[1].task.id
         IN  MapSet(count, id, (IF id \in DOMAIN count THEN count[id] ELSE 0) + 1)

----------------------------------------------------------------------------
(* AdvancedAgentCoordinator: state and operations *)

CoordInit ==
    /\ agentPool = [agents |-> {}, activeAgents |-> {}, idleAgents |-> <<>>,
                    busyAgents |-> EmptyMap]
    /\ taskQueue = [high |-> <<>>, medium |-> <<>>, low |-> <<>>]
    /\ metrics = [totalTasks |-> 0, completedTasks |-> 0, failedTasks |-> 0,
                  averageTaskDuration |-> Finite(0, 1),
                  agentUtilization |-> EmptyMap]
    /\ resultCache = {}
    /\ maxConcurrentTasks \in ConcurrencyLimits
    /\ executing = {}
    /\ dispatchCount = EmptyMap
    /\ errorLog = {}
    /\ submittedTier = EmptyMap

registerAgent(agent) ==
    /\ agentPool' = [agentPool EXCEPT !.agents = @ \cup {agent},
                                      !.idleAgents = OrderedAdd(@, agent)]
    /\ metrics' = [metrics EXCEPT !.agentUtilization = MapSet(@, agent, 0)]
    /\ UNCHANGED <<taskQueue, resultCache, maxConcurrentTasks, executing,
                   dispatchCount, errorLog, submittedTier>>
    /\ UNCHANGED <<infVars, memVars, netVars, zeroVars>>

unregisterAgent(agentId) ==
    /\ agentPool' = [agents |-> agentPool.agents \ {agentId},
                     activeAgents |-> agentPool.activeAgents \ {agentId},
                     idleAgents |-> OrderedDelete(agentPool.idleAgents, agentId),
                     busyAgents |-> MapDelete(agentPool.busyAgents, agentId)]
    /\ metrics' = [metrics EXCEPT !.agentUtilization = MapDelete(@, agentId)]
    /\ UNCHANGED <<taskQueue, resultCache, maxConcurrentTasks, executing,
                   dispatchCount, errorLog, submittedTier>>
    /\ UNCHANGED <<infVars, memVars, netVars, zeroVars>>

\* submitTask(task, priority): push, count, processTasks
submitTask(requiredSkills, priority) ==
    /\ metrics.totalTasks < MaxTasks
    /\ LET task == [id |-> metrics.totalTasks + 1, requiredSkills |-> requiredSkills]
           pushed == [taskQueue EXCEPT ![priority] = Append(@, task)]
           r == processTasks(agentPool, pushed, metrics.agentUtilization,
                             resultCache, maxConcurrentTasks)
       IN  /\ agentPool' = r.pool
           /\ taskQueue' = r.queue
           /\ metrics' = [metrics EXCEPT !.totalTasks = @ + 1]
           /\ executing' = executing \cup Range(r.started)
           /\ dispatchCount' = Counted(dispatchCount, r.started)
           /\ submittedTier' = MapSet(submittedTier, task.id, priority)
    /\ UNCHANGED <<resultCache, maxConcurrentTasks, errorLog>>
    /\ UNCHANGED <<infVars, memVars, netVars, zeroVars>>

\* completeTask that puts a task whose execution threw back into the medium tier
completeTaskRetry(e, success, duration) ==
    /\ e \in executing
    /\ e.cached => success
    /\ LET counted == updateMetrics(metrics, success, duration)
           released == markAgentIdle(agentPool, e.agent)
           requeued == IF success THEN taskQueue
                       ELSE [taskQueue EXCEPT !.medium = Append(@, e.task)]
           r == processTasks(released, requeued, counted.agentUtilization,
                             resultCache', maxConcurrentTasks)
       IN  /\ resultCache' = IF success /\ ~e.cached
                             THEN resultCache \cup {e.task.id} ELSE resultCache
           /\ errorLog' = IF success THEN errorLog
                          ELSE errorLog \cup {[taskId |-> e.task.id]}
           /\ metrics' = counted
           /\ agentPool' = r.pool
           /\ taskQueue' = r.queue
           /\ executing' = (executing \ {e}) \cup Range(r.started)
           /\ dispatchCount' = Counted(dispatchCount, r.started)
    /\ UNCHANGED <<maxConcurrentTasks, submittedTier>>
    /\ UNCHANGED <<infVars, memVars, netVars, zeroVars>>

\* the rest of processTasks once executeTask settles: metrics, the error report
\* when it threw, then the finally block (markAgentIdle and processTasks again)
completeTask(e, success, duration) ==
    /\ e \in executing
    /\ e.cached => success
    /\ LET counted == updateMetrics(metrics, success, duration)
           released == markAgentIdle(agentPool, e.agent)
           r == processTasks(released, taskQueue, counted.agentUtilization,
                             resultCache', maxConcurrentTasks)
       IN  /\ resultCache' = IF success /\ ~e.cached
                             THEN resultCache \cup {e.task.id} ELSE resultCache
           /\ errorLog' = IF success THEN errorLog
                          ELSE errorLog \cup {[taskId |-> e.task.id]}
           /\ metrics' = counted
           /\ agentPool' = r.pool
           /\ taskQueue' = r.queue
           /\ executing' = (executing \ {e})
                              \cup Range(r.started)
           /\ dispatchCount' = Counted(dispatchCount, r.started)
    /\ UNCHANGED <<maxConcurrentTasks, submittedTier>>
    /\ UNCHANGED <<infVars, memVars, netVars, zeroVars>>

NextCoord ==
    \/ \E agent \in AgentIds : registerAgent(agent)
    \/ \E agentId \in AgentIds : unregisterAgent(agentId)
    \/ \E s \in Submissions : submitTask(s.requiredSkills, s.priority)
    \/ \E e \in executing, success \in BOOLEAN, duration \in Durations :
          completeTask(e, success, duration)

----------------------------------------------------------------------------
(* InferenceCoordinator: the requests and configurations the environment offers *)

\* a request: the five parameters that enter the cache key (prompt, maxTokens,
\* temperature, topK, topP) taken together, and its stop sequences
Requests ==
    { [params |-> "p1", stopSequences |-> "none"],
      [params |-> "p1", stopSequences |-> "stop"],
      [params |-> "p2", stopSequences |-> "none"] }

Priorities == {1, 5}

Configs ==
    { [loadBalancing |-> "round-robin", enableCaching |-> TRUE,
       cacheSize |-> 1, maxEngines |-> 2],
      [loadBalancing |-> "least-loaded", enableCaching |-> TRUE,
       cacheSize |-> 2, maxEngines |-> 1],
      [loadBalancing |-> "priority", enableCaching |-> FALSE,
       cacheSize |-> 1, maxEngines |-> 2] }

EngineCounts == {3}

\* the 5 minute TTL of submit(): one tick of the clock
CacheTtl == 1

NoRequest == [params |-> "none", stopSequences |-> "none"]

NoResponse == [job |-> 0, request |-> NoRequest]

----------------------------------------------------------------------------
(* InferenceCoordinator: pure parts *)

Min(S) == CHOOSE x \in S : \A y \in S : x <= y

\* JSON.stringify of prompt, maxTokens, temperature, topK, topP
getCacheKey(request) == request.params

CacheHas(cache, key) == \E i \in DOMAIN cache : cache[i].key = key

CacheGet(cache, key) == cache[CHOOSE i \in DOMAIN cache : cache[i].key = key]

\* the TTL test with the comparison inverted
CacheFreshInverted(cache, key, t) ==
    CacheHas(cache, key) /\ t - CacheGet(cache, key).timestamp > CacheTtl

\* cached && Date.now() - cached.timestamp < 300000
CacheFresh(cache, key, t) ==
    CacheHas(cache, key) /\ t - CacheGet(cache, key).timestamp < CacheTtl

\* cacheResponse without the size limit
cacheResponseNoEviction(cache, cacheSize, key, response, t) ==
    LET entry == [key |-> key, response |-> response, timestamp |-> t]
    IN  IF CacheHas(cache, key)
        THEN [i \in DOMAIN cache |-> IF cache[i].key = key THEN entry ELSE cache[i]]
        ELSE Append(cache, entry)

\* cacheResponse: drop the first key when the map is full, then Map.set
cacheResponse(cache, cacheSize, key, response, t) ==
    LET trimmed == IF Len(cache) >= cacheSize /\ cache # <<>> THEN Tail(cache) ELSE cache
        entry == [key |-> key, response |-> response, timestamp |-> t]
    IN  IF CacheHas(trimmed, key)
        THEN [i \in DOMAIN trimmed |-> IF trimmed[i].key = key THEN entry ELSE trimmed[i]]
        ELSE Append(trimmed, entry)

IdleEngines(engs) == {i \in DOMAIN engs : engs[i].status = "idle"}

\* first idle engine in insertion order; 0 is null
findRoundRobin(engs) ==
    IF IdleEngines(engs) = {} THEN 0 ELSE Min(IdleEngines(engs))

\* idle engine with the fewest processed jobs, the first one on ties
findLeastLoaded(engs) ==
    IF IdleEngines(engs) = {} THEN 0
    ELSE CHOOSE i \in IdleEngines(engs) :
            \A j \in IdleEngines(engs) :
                \/ engs[i].processedJobs < engs[j].processedJobs
                \/ engs[i].processedJobs = engs[j].processedJobs /\ i <= j

\* averageLatency is the running mean latencySum / processedJobs (0 before the
\* first job): a < b by cross-multiplication
LatencyLess(a, b) ==
    a.latencySum * (IF b.processedJobs = 0 THEN 1 ELSE b.processedJobs)
        < b.latencySum * (IF a.processedJobs = 0 THEN 1 ELSE a.processedJobs)

\* idle engine with the lowest average latency, the first one on ties
findByPriority(engs) ==
    IF IdleEngines(engs) = {} THEN 0
    ELSE CHOOSE i \in IdleEngines(engs) :
            \A j \in IdleEngines(engs) :
                \/ LatencyLess(engs[i], engs[j])
                \/ ~LatencyLess(engs[j], engs[i]) /\ i <= j

findAvailableEngine(engs, policy) ==
    CASE policy = "round-robin" -> findRoundRobin(engs)
      [] policy = "least-loaded" -> findLeastLoaded(engs)
      [] policy = "priority" -> findByPriority(engs)
      [] OTHER -> findLeastLoaded(engs)

\* updateEngineStatus: nothing happens for an id that is not in the map
updateEngineStatus(engs, engineId, status, jobId) ==
    IF engineId \in DOMAIN engs
    THEN [engs EXCEPT ![engineId].status = status, ![engineId].currentJob = jobId]
    ELSE engs

\* always push at the tail
enqueueJobAtTail(queue, job) == Append(queue, job)

\* enqueueJob: before the first queued job of strictly lower priority
enqueueJob(queue, job) ==
    LET lower == {i \in DOMAIN queue : job.priority > queue[i].priority}
    IN  IF lower = {} THEN Append(queue, job)
        ELSE SubSeq(queue, 1, Min(lower) - 1) \o <<job>>
                \o SubSeq(queue, Min(lower), Len(queue))

\* an operation occupying an engine: an executeJob call or a stream
Operation(kind, id, request, priority, engineId, t) ==
    [kind |-> kind, id |-> id, request |-> request, priority |-> priority,
     engine |-> engineId, startTime |-> t]

\* one synchronous run of the processQueue loop body: dequeue and start jobs
\* while the queue is not empty and an engine is available
RECURSIVE DispatchQueued(_, _, _, _, _)
DispatchQueued(engs, queue, ops, policy, t) ==
    LET engineId == findAvailableEngine(engs, policy)
    IN  IF queue = <<>> \/ engineId = 0
        THEN [engineStatus |-> engs, jobQueue |-> queue, running |-> ops]
        ELSE DispatchQueued(
                updateEngineStatus(engs, engineId, "processing", Head(queue).id),
                Tail(queue),
                ops \cup {Operation("job", Head(queue).id, Head(queue).request,
                                    Head(queue).priority, engineId, t)},
                policy, t)

----------------------------------------------------------------------------
(* InferenceCoordinator: state and operations *)

InfInit(cfg) ==
    /\ config = cfg
    /\ engineStatus = <<>>
    /\ jobQueue = <<>>
    /\ responseCache = <<>>
    /\ infMetrics = [totalJobs |-> 0, completedJobs |-> 0, failedJobs |-> 0,
                     cacheHits |-> 0, cacheMisses |-> 0, latencySum |-> 0]
    /\ isRunning = FALSE
    /\ lifecycle = [init |-> "none", toLoad |-> 0, loop |-> "none",
                    shutdown |-> "none", calls |-> 0]
    /\ running = {}
    /\ waiters = {}
    /\ promises = EmptyMap
    /\ returned = [kind |-> "none", key |-> "none", response |-> NoResponse]
    /\ now = 0

\* no continuation of the current turn is pending: timers and I/O can fire
Quiet ==
    /\ \A w \in waiters : w.pc # "selected"
    /\ lifecycle.shutdown # "clearing"

\* initialize(modelPath, engineCount) up to the first await loadModel
initialize(engineCount) ==
    /\ lifecycle.init = "none" /\ lifecycle.shutdown = "none"
    /\ lifecycle' = [lifecycle EXCEPT !.init = "loading",
                        !.toLoad = IF engineCount < config.maxEngines
                                   THEN engineCount ELSE config.maxEngines]
    /\ UNCHANGED <<config, engineStatus, jobQueue, responseCache, infMetrics,
                   isRunning, running, waiters, promises, returned, now>>
    /\ UNCHANGED <<coordVars, memVars, netVars, zeroVars>>

\* one loadModel settles: the engine is added idle; after the last one
\* isRunning is set and processQueue starts
engineLoaded ==
    /\ lifecycle.init = "loading" /\ Quiet
    /\ LET added == Append(engineStatus,
                       [status |-> "idle", currentJob |-> 0, processedJobs |-> 0,
                        latencySum |-> 0])
           d == DispatchQueued(added, jobQueue, running, config.loadBalancing, now)
       IN  IF Len(added) < lifecycle.toLoad
           THEN /\ engineStatus' = added
                /\ UNCHANGED <<jobQueue, running, isRunning, lifecycle>>
           ELSE /\ engineStatus' = d.engineStatus
                /\ jobQueue' = d.jobQueue
                /\ running' = d.running
                /\ isRunning' = TRUE
                /\ lifecycle' = [lifecycle EXCEPT !.init = "done", !.loop = "polling"]
    /\ UNCHANGED <<config, responseCache, infMetrics, waiters, promises, returned, now>>
    /\ UNCHANGED <<coordVars, memVars, netVars, zeroVars>>

\* submit(request, priority)
submit(request, priority) ==
    /\ infMetrics.totalJobs + infMetrics.cacheHits < MaxSubmits
    /\ LET key == getCacheKey(request)
           id == infMetrics.totalJobs + 1
           engineId == findAvailableEngine(engineStatus, config.loadBalancing)
       IN  IF config.enableCaching /\ CacheFresh(responseCache, key, now)
           THEN /\ infMetrics' = [infMetrics EXCEPT !.cacheHits = @ + 1]
                /\ returned' = [kind |-> "cached", key |-> key,
                                response |-> CacheGet(responseCache, key).response]
                /\ UNCHANGED <<engineStatus, jobQueue, running, promises>>
           ELSE /\ infMetrics' = [infMetrics EXCEPT
                                    !.cacheMisses = IF config.enableCaching
                                                    THEN @ + 1 ELSE @,
                                    !.totalJobs = @ + 1]
                /\ returned' = [kind |-> "pending", key |-> key, response |-> NoResponse]
                /\ promises' = MapSet(promises, id, "pending")
                /\ IF engineId # 0
                   THEN /\ engineStatus' = updateEngineStatus(engineStatus, engineId,
                                                              "processing", id)
                        /\ running' = running \cup
                              {Operation("job", id, request, priority, engineId, now)}
                        /\ UNCHANGED jobQueue
                   ELSE /\ jobQueue' = enqueueJob(jobQueue,
                              [id |-> id, request |-> request, priority |-> priority,
                               createdAt |-> now])
                        /\ UNCHANGED <<engineStatus, running>>
    /\ UNCHANGED <<config, responseCache, isRunning, lifecycle, waiters, now>>
    /\ UNCHANGED <<coordVars, memVars, netVars, zeroVars>>

\* a throw of the engine that never reaches the caller: the promise stays pending
jobDoneFailureSwallowed(op, success) ==
    /\ op \in running /\ op.kind = "job" /\ Quiet
    /\ LET latency == now - op.startTime
           counted == IF success /\ op.engine \in DOMAIN engineStatus
                      THEN [engineStatus EXCEPT
                              ![op.engine].processedJobs = @ + 1,
                              ![op.engine].latencySum = @ + latency]
                      ELSE engineStatus
       IN  /\ infMetrics' = IF success
                            THEN [infMetrics EXCEPT !.completedJobs = @ + 1,
                                                    !.latencySum = @ + latency]
                            ELSE [infMetrics EXCEPT !.failedJobs = @ + 1]
           /\ engineStatus' = updateEngineStatus(counted, op.engine, "idle", 0)
           /\ responseCache' = IF success /\ config.enableCaching
                               THEN cacheResponse(responseCache, config.cacheSize,
                                        getCacheKey(op.request),
                                        [job |-> op.id, request |-> op.request], now)
                               ELSE responseCache
           /\ promises' = MapSet(promises, op.id,
                                 IF success THEN "resolved" ELSE "pending")
    /\ running' = running \ {op}
    /\ UNCHANGED <<config, jobQueue, isRunning, lifecycle, waiters, returned, now>>
    /\ UNCHANGED <<coordVars, memVars, netVars, zeroVars>>

\* executeJob after await engine.infer: metrics, engine counters and cache on
\* success, failedJobs on a throw, then the finally block; the promise the
\* caller holds settles (directly, or through the queued job's callback)
jobDone(op, success) ==
    /\ op \in running /\ op.kind = "job" /\ Quiet
    /\ LET latency == now - op.startTime
           counted == IF success /\ op.engine \in DOMAIN engineStatus
                      THEN [engineStatus EXCEPT
                              ![op.engine].processedJobs = @ + 1,
                              ![op.engine].latencySum = @ + latency]
                      ELSE engineStatus
       IN  /\ infMetrics' = IF success
                            THEN [infMetrics EXCEPT !.completedJobs = @ + 1,
                                                    !.latencySum = @ + latency]
                            ELSE [infMetrics EXCEPT !.failedJobs = @ + 1]
           /\ engineStatus' = updateEngineStatus(counted, op.engine, "idle", 0)
           /\ responseCache' = IF success /\ config.enableCaching
                               THEN cacheResponse(responseCache, config.cacheSize,
                                        getCacheKey(op.request),
                                        [job |-> op.id, request |-> op.request], now)
                               ELSE responseCache
           /\ promises' = MapSet(promises, op.id,
                                 IF success THEN "resolved" ELSE "rejected")
    /\ running' = running \ {op}
    /\ UNCHANGED <<config, jobQueue, isRunning, lifecycle, waiters, returned, now>>
    /\ UNCHANGED <<coordVars, memVars, netVars, zeroVars>>

\* the processQueue loop wakes from its 10 ms sleep (or runs on after a dispatch)
processQueue ==
    /\ lifecycle.loop = "polling" /\ Quiet
    /\ IF ~isRunning
       THEN /\ lifecycle' = [lifecycle EXCEPT !.loop = "stopped"]
            /\ UNCHANGED <<engineStatus, jobQueue, running>>
       ELSE LET d == DispatchQueued(engineStatus, jobQueue, running,
                                    config.loadBalancing, now)
            IN  /\ engineStatus' = d.engineStatus
                /\ jobQueue' = d.jobQueue
                /\ running' = d.running
                /\ UNCHANGED lifecycle
    /\ UNCHANGED <<config, responseCache, infMetrics, isRunning, waiters, promises,
                   returned, now>>
    /\ UNCHANGED <<coordVars, memVars, netVars, zeroVars>>

\* stream(request) / embed(text) up to `await this.waitForEngine()`: the engine
\* is chosen now, the caller resumes in a later microtask; without an idle engine
\* waitForEngine sleeps 10 ms
waitForEngineCall(kind) ==
    /\ lifecycle.calls < MaxWaiters
    /\ LET engineId == findAvailableEngine(engineStatus, config.loadBalancing)
       IN  waiters' = waiters \cup
              {[id |-> lifecycle.calls + 1, kind |-> kind,
                pc |-> IF engineId = 0 THEN "sleeping" ELSE "selected",
                engine |-> engineId]}
    /\ lifecycle' = [lifecycle EXCEPT !.calls = @ + 1]
    /\ UNCHANGED <<config, engineStatus, jobQueue, responseCache, infMetrics,
                   isRunning, running, promises, returned, now>>
    /\ UNCHANGED <<coordVars, memVars, netVars, zeroVars>>

\* the caller of waitForEngine goes on with the engine it was given: stream marks
\* it processing and starts inferStream, embed runs engine.embed
Proceed(w, engineId) ==
    /\ waiters' = waiters \ {w}
    /\ IF w.kind = "stream"
       THEN /\ engineStatus' = updateEngineStatus(engineStatus, engineId,
                                                  "processing", 0)
            /\ running' = running \cup
                  {Operation("stream", w.id, NoRequest, 0, engineId, now)}
       ELSE UNCHANGED <<engineStatus, running>>

\* the microtask after a waitForEngine that found an engine at once
waiterResume(w) ==
    /\ w \in waiters /\ w.pc = "selected"
    /\ Proceed(w, w.engine)
    /\ UNCHANGED <<config, jobQueue, responseCache, infMetrics, isRunning, lifecycle,
                   promises, returned, now>>
    /\ UNCHANGED <<coordVars, memVars, netVars, zeroVars>>

\* waitForEngine wakes from its sleep: with an idle engine the caller resumes in
\* the same turn
waiterWake(w) ==
    /\ w \in waiters /\ w.pc = "sleeping" /\ Quiet
    /\ findAvailableEngine(engineStatus, config.loadBalancing) # 0
    /\ Proceed(w, findAvailableEngine(engineStatus, config.loadBalancing))
    /\ UNCHANGED <<config, jobQueue, responseCache, infMetrics, isRunning, lifecycle,
                   promises, returned, now>>
    /\ UNCHANGED <<coordVars, memVars, netVars, zeroVars>>

\* the stream ends (last token, an error of the engine, or return() by the
\* consumer): the finally block marks the engine idle
streamEnd(op) ==
    /\ op \in running /\ op.kind = "stream" /\ Quiet
    /\ engineStatus' = updateEngineStatus(engineStatus, op.engine, "idle", 0)
    /\ running' = running \ {op}
    /\ UNCHANGED <<config, jobQueue, responseCache, infMetrics, isRunning, lifecycle,
                   waiters, promises, returned, now>>
    /\ UNCHANGED <<coordVars, memVars, netVars, zeroVars>>

Quiescent ==
    /\ \A i \in DOMAIN engineStatus : engineStatus[i].status # "processing"
    /\ jobQueue = <<>>

\* shutdown() up to its first await: isRunning is cleared and waitForCompletion
\* makes its first check
shutdown ==
    /\ lifecycle.shutdown = "none" /\ lifecycle.init \in {"none", "done"}
    /\ isRunning' = FALSE
    /\ lifecycle' = [lifecycle EXCEPT
                        !.shutdown = IF Quiescent THEN "clearing" ELSE "waiting"]
    /\ UNCHANGED <<config, engineStatus, jobQueue, responseCache, infMetrics, running,
                   waiters, promises, returned, now>>
    /\ UNCHANGED <<coordVars, memVars, netVars, zeroVars>>

\* the rest of shutdown() once waitForCompletion returned: engines unloaded,
\* maps and queue cleared. waitForCompletion returns when nothing is processing
\* and the queue is empty, or when its 30 s are over
shutdownClear(timedOut) ==
    /\ \/ lifecycle.shutdown = "clearing"
       \/ lifecycle.shutdown = "waiting" /\ Quiet /\ (Quiescent \/ timedOut)
    /\ engineStatus' = <<>>
    /\ jobQueue' = <<>>
    /\ lifecycle' = [lifecycle EXCEPT !.shutdown = "done"]
    /\ UNCHANGED <<config, responseCache, infMetrics, isRunning, running, waiters,
                   promises, returned, now>>
    /\ UNCHANGED <<coordVars, memVars, netVars, zeroVars>>

tick ==
    /\ now < MaxClock /\ Quiet
    /\ now' = now + 1
    /\ UNCHANGED <<config, engineStatus, jobQueue, responseCache, infMetrics,
                   isRunning, lifecycle, running, waiters, promises, returned>>
    /\ UNCHANGED <<coordVars, memVars, netVars, zeroVars>>

\* the responses executeJob caches: the job and its request
Responses == [job : 1..3, request : Requests]

\* this.cacheResponse(job.request, response), the call executeJob makes after a
\* successful inference when caching is enabled
cacheResponseCall(request, response) ==
    /\ config.enableCaching
    /\ response.request = request
    /\ responseCache' = cacheResponse(responseCache, config.cacheSize,
                                      getCacheKey(request), response, now)
    /\ UNCHANGED <<config, engineStatus, jobQueue, infMetrics, isRunning, lifecycle,
                   running, waiters, promises, returned, now>>
    /\ UNCHANGED <<coordVars, memVars, netVars, zeroVars>>

\* the cache under the cacheResponse calls of jobs that succeed, in any order of
\* keys, as the clock advances
NextCache ==
    \/ \E request \in Requests, response \in Responses :
          cacheResponseCall(request, response)
    \/ tick

NextInf ==
    \/ \E engineCount \in EngineCounts : initialize(engineCount)
    \/ engineLoaded
    \/ \E request \in Requests, priority \in Priorities : submit(request, priority)
    \/ \E op \in running, success \in BOOLEAN : jobDone(op, success)
    \/ processQueue
    \/ \E kind \in {"stream", "embed"} : waitForEngineCall(kind)
    \/ \E w \in waiters : waiterResume(w)
    \/ \E w \in waiters : waiterWake(w)
    \/ \E op \in running : streamEnd(op)
    \/ shutdown
    \/ \E timedOut \in BOOLEAN : shutdownClear(timedOut)
    \/ tick

----------------------------------------------------------------------------
(* MemoryManager *)

MemoryConfigs == [enabled : BOOLEAN, maxMemories : {1, 2, 3}]

\* the texts stored and asked for, as their words
Contents == {<<"x", "y">>, <<"x", "y", "z">>}

\* the records handed to store(); relevanceScore in tenths
MemoryInputs ==
    { [content |-> <<"x", "y">>, relevanceScore |-> 1],
      [content |-> <<"x", "y", "z">>, relevanceScore |-> 5],
      [content |-> <<"x", "y">>, relevanceScore |-> 9] }

Limits == {1, 2}

NoRetrieval == [count |-> 0, query |-> <<>>, limit |-> 0, pc |-> "none", result |-> <<>>]

\* the eviction score times 3000: relevanceScore * 0.5 + (accessCount / 100) * 0.3
\* + (1 - age / 30 days) * 0.2, with the age in days; the recency term is not
\* floored at 0
EvictionScore(m, t) ==
    150 * m.relevanceScore + 9 * m.accessCount + 600 - 20 * (t - m.timestamp)

\* Math.floor in place of Math.ceil
EvictCountFloor(n) == n \div 10

\* Math.ceil(memories.length * 0.1), for the sizes below 30 where the floating
\* point product is exact enough
EvictCount(n) == (n + 9) \div 10

\* the first record of lowest score: the head of the stable ascending sort
LowestIndex(mems, t) ==
    CHOOSE i \in DOMAIN mems :
        \A j \in DOMAIN mems :
            \/ EvictionScore(mems[i], t) < EvictionScore(mems[j], t)
            \/ EvictionScore(mems[i], t) = EvictionScore(mems[j], t) /\ i <= j

RemoveAt(s, i) == SubSeq(s, 1, i - 1) \o SubSeq(s, i + 1, Len(s))

\* the ids of the first k records of the ascending sort
RECURSIVE LowestIds(_, _, _)
LowestIds(mems, k, t) ==
    IF k = 0 \/ mems = <<>> THEN {}
    ELSE {mems[LowestIndex(mems, t)].id}
            \cup LowestIds(RemoveAt(mems, LowestIndex(mems, t)), k - 1, t)

\* evictLeastRelevant: delete(id) for the lowest tenth
evictLeastRelevant(mems, embs, t) ==
    LET gone == LowestIds(mems, EvictCount(Len(mems)), t)
    IN  [memories |-> SelectSeq(mems, LAMBDA m : m.id \notin gone),
         embeddings |-> embs \ gone]

MemInit(cfg) ==
    /\ memConfig = cfg
    /\ memories = <<>>
    /\ embeddings = {}
    /\ storeCalls = {}
    /\ storeCount = 0
    /\ today = 0
    /\ retrieval = NoRetrieval

\* store() from `if (this.memories.size >= this.config.maxMemories)` on: at
\* capacity the call evicts and suspends at `await this.evictLeastRelevant()`,
\* below capacity it inserts and returns
EnforceLimit(fullMemory, embs, others) ==
    IF Len(memories) >= memConfig.maxMemories
    THEN /\ memories' = evictLeastRelevant(memories, embs, today).memories
         /\ embeddings' = evictLeastRelevant(memories, embs, today).embeddings
         /\ storeCalls' = others \cup {[memory |-> fullMemory, pc |-> "evicted"]}
    ELSE /\ memories' = Append(memories, fullMemory)
         /\ embeddings' = embs
         /\ storeCalls' = others

\* store(memory) up to its first await
store(memory) ==
    /\ storeCount < MaxStores
    /\ LET fullMemory == [id |-> storeCount + 1, content |-> memory.content,
                          relevanceScore |-> memory.relevanceScore,
                          accessCount |-> 0, timestamp |-> today]
       IN  IF memConfig.enabled
           THEN /\ storeCalls' = storeCalls \cup
                                    {[memory |-> fullMemory, pc |-> "embedding"]}
                /\ UNCHANGED <<memories, embeddings>>
           ELSE EnforceLimit(fullMemory, embeddings, storeCalls)
    /\ storeCount' = storeCount + 1
    /\ UNCHANGED <<memConfig, today, retrieval>>
    /\ UNCHANGED <<coordVars, infVars, netVars, zeroVars>>

\* store() after `await this.generateEmbedding(...)`
storeAfterEmbedding(c) ==
    /\ c \in storeCalls /\ c.pc = "embedding"
    /\ EnforceLimit(c.memory, embeddings \cup {c.memory.id}, storeCalls \ {c})
    /\ UNCHANGED <<memConfig, storeCount, today, retrieval>>
    /\ UNCHANGED <<coordVars, infVars, netVars, zeroVars>>

\* store() after `await this.evictLeastRelevant()`: the insert
storeAfterEviction(c) ==
    /\ c \in storeCalls /\ c.pc = "evicted"
    /\ memories' = Append(memories, c.memory)
    /\ storeCalls' = storeCalls \ {c}
    /\ UNCHANGED <<memConfig, embeddings, storeCount, today, retrieval>>
    /\ UNCHANGED <<coordVars, infVars, netVars, zeroVars>>

Words(text) == {text[i] : i \in DOMAIN text}

\* cosineSimilarity of two generateEmbedding vectors, times 120000. The word at
\* index i adds 1 / (i + 1) to its bucket, so "x y" is (1, 1/2, 0) and "x y z"
\* is (1, 1/2, 1/3) before normalisation: 1.25 / sqrt(1.25 * 1.3611) = 0.958315
cosineSimilarity(a, b) == IF a = b THEN 120000 ELSE 114998

\* keywordSimilarity times 120000: the share of the query's words in the content
keywordSimilarity(query, content) ==
    (120000 * Cardinality(Words(query) \cap Words(content))) \div Cardinality(Words(query))

\* 600 * Math.log(n), rounded, for n = 1 .. 8
LogTimes600 == <<0, 416, 659, 832, 966, 1075, 1168, 1248>>

\* the retrieval score times 120000: similarity + recencyBoost * 0.1
\* + accessBoost * 0.05, recencyBoost = 1 / (1 + age in days),
\* accessBoost = Math.log(accessCount + 1) / 10
RetrievalScore(m, embs, query, t) ==
    (IF m.id \in embs THEN cosineSimilarity(query, m.content)
                      ELSE keywordSimilarity(query, m.content))
        + 12000 \div (1 + (t - m.timestamp))
        + LogTimes600[m.accessCount + 1]

\* the first record of highest score: the head of the stable descending sort
HighestIndex(mems, embs, query, t) ==
    CHOOSE i \in DOMAIN mems :
        \A j \in DOMAIN mems :
            \/ RetrievalScore(mems[i], embs, query, t) > RetrievalScore(mems[j], embs, query, t)
            \/ /\ RetrievalScore(mems[i], embs, query, t) = RetrievalScore(mems[j], embs, query, t)
               /\ i <= j

\* scored.sort((a, b) => b.score - a.score).slice(0, limit), as ids
RECURSIVE TopIds(_, _, _, _, _)
TopIds(mems, embs, query, limit, t) ==
    IF limit = 0 \/ mems = <<>> THEN <<>>
    ELSE <<mems[HighestIndex(mems, embs, query, t)].id>>
            \o TopIds(RemoveAt(mems, HighestIndex(mems, embs, query, t)),
                      embs, query, limit - 1, t)

\* retrieve(query, limit) up to `await this.generateEmbedding(query)`
retrieve(query, limit) ==
    /\ retrieval.count < MaxRetrieves
    /\ retrieval' = [count |-> retrieval.count + 1, query |-> query, limit |-> limit,
                     pc |-> IF ~memConfig.enabled \/ memories = <<>>
                            THEN "done" ELSE "embedding",
                     result |-> <<>>]
    /\ UNCHANGED <<memConfig, memories, embeddings, storeCalls, storeCount, today>>
    /\ UNCHANGED <<coordVars, infVars, netVars, zeroVars>>

\* retrieve() after the await: score, sort, slice, accessCount++ on the results
retrieveAfterEmbedding ==
    /\ retrieval.pc = "embedding"
    /\ LET ids == TopIds(memories, embeddings, retrieval.query, retrieval.limit, today)
       IN  /\ memories' = [i \in DOMAIN memories |->
                             IF \E k \in DOMAIN ids : ids[k] = memories[i].id
                             THEN [memories[i] EXCEPT !.accessCount = @ + 1]
                             ELSE memories[i]]
           /\ retrieval' = [retrieval EXCEPT !.pc = "done", !.result = ids]
    /\ UNCHANGED <<memConfig, embeddings, storeCalls, storeCount, today>>
    /\ UNCHANGED <<coordVars, infVars, netVars, zeroVars>>

\* a day passes
dayPasses ==
    /\ today < MaxDays
    /\ today' = today + 1
    /\ UNCHANGED <<memConfig, memories, embeddings, storeCalls, storeCount, retrieval>>
    /\ UNCHANGED <<coordVars, infVars, netVars, zeroVars>>

\* thirty days pass
thirtyDaysPass ==
    /\ today + 30 <= 30 * MaxDays
    /\ today' = today + 30
    /\ UNCHANGED <<memConfig, memories, embeddings, storeCalls, storeCount, retrieval>>
    /\ UNCHANGED <<coordVars, infVars, netVars, zeroVars>>

\* store calls made one after the other over months
NextMemAging ==
    \/ \E memory \in MemoryInputs : storeCalls = {} /\ store(memory)
    \/ \E c \in storeCalls : storeAfterEmbedding(c)
    \/ \E c \in storeCalls : storeAfterEviction(c)
    \/ thirtyDaysPass

\* store calls made one after the other: the caller awaits each call
NextMemSeq ==
    \/ \E memory \in MemoryInputs :
          storeCalls = {} /\ retrieval.pc # "embedding" /\ store(memory)
    \/ \E c \in storeCalls : storeAfterEmbedding(c)
    \/ \E c \in storeCalls : storeAfterEviction(c)
    \/ dayPasses

\* store calls that overlap: a call may start while others are suspended at
\* their awaits, and the suspended calls resume in any order
NextMemOverlap ==
    \/ \E memory \in MemoryInputs : store(memory)
    \/ \E c \in storeCalls : storeAfterEmbedding(c)
    \/ \E c \in storeCalls : storeAfterEviction(c)
    \/ dayPasses

\* store and retrieve calls made one after the other
NextMemRetrieve ==
    \/ NextMemSeq
    \/ \E query \in Contents, limit \in Limits :
          storeCalls = {} /\ retrieval.pc # "embedding" /\ retrieve(query, limit)
    \/ retrieveAfterEmbedding

----------------------------------------------------------------------------
(* AgentNetworkCoordinator: message queue and flush *)

NetworkAgentIds == {"N1", "N2", "N3"}

\* urgencyOrder = { critical: 4, high: 3, medium: 2, low: 1 }
urgencyOrder == [critical |-> 4, high |-> 3, medium |-> 2, low |-> 1]

\* the messages callers broadcast: sender, target and urgency
MessageInputs ==
    { [fromAgent |-> "system", toAgent |-> "all", urgency |-> "low"],
      [fromAgent |-> "N1", toAgent |-> "all", urgency |-> "high"],
      [fromAgent |-> "N2", toAgent |-> "N1", urgency |-> "critical"] }

NoFlight == [messages |-> <<>>, index |-> 0, pos |-> 0]

\* Array.prototype.sort with (a, b) => urgencyOrder[b.urgency] -
\* urgencyOrder[a.urgency]: stable, by descending urgency
RECURSIVE SortByUrgencyFrom(_, _)
SortByUrgencyFrom(queue, level) ==
    IF level = 0 THEN <<>>
    ELSE SelectSeq(queue, LAMBDA m : urgencyOrder[m.urgency] = level)
            \o SortByUrgencyFrom(queue, level - 1)

\* the queue taken as it is, without the sort
SortByUrgencyNot(queue) == queue

SortByUrgency(queue) == SortByUrgencyFrom(queue, 4)

\* the loops of processMessageQueue from message number index, with pos entries
\* of the agents map already passed for a broadcast, up to the next call of
\* receiveMessage: the position of that call, or NoFlight when the loops end
RECURSIVE NextDelivery(_, _, _, _)
NextDelivery(messages, index, pos, agents) ==
    IF index > Len(messages) THEN NoFlight
    ELSE IF messages[index].toAgent = "all"
         THEN IF pos >= Len(agents)
              THEN NextDelivery(messages, index + 1, 0, agents)
              ELSE IF agents[pos + 1] # messages[index].fromAgent
                   THEN [messages |-> messages, index |-> index, pos |-> pos + 1]
                   ELSE NextDelivery(messages, index, pos + 1, agents)
         ELSE IF pos = 0 /\ messages[index].toAgent \in Range(agents)
              THEN [messages |-> messages, index |-> index, pos |-> 1]
              ELSE NextDelivery(messages, index + 1, 0, agents)

\* the agent whose receiveMessage a flush is awaiting
Recipient(f, agents) ==
    IF f.messages[f.index].toAgent = "all" THEN agents[f.pos]
    ELSE f.messages[f.index].toAgent

\* the flush goes on to its next receiveMessage call, which is logged, or ends
Continue(next, agents) ==
    /\ flight' = next
    /\ isProcessing' = (next # NoFlight)
    /\ delivered' = IF next = NoFlight THEN delivered
                    ELSE Append(delivered,
                            [flush |-> networkCount.flushes',
                             message |-> next.messages[next.index].id,
                             agent |-> Recipient(next, agents)])

\* agent.type of the agents the environment registers
NetworkAgentType == [N1 |-> "grammar", N2 |-> "planning", N3 |-> "context"]

InputTypes == {"user_request", "code_change"}

NoInput == [pc |-> "none", agents |-> <<>>, index |-> 0, outputs |-> <<>>,
            available |-> <<>>, handed |-> <<>>,
            outcomes |-> <<>>, flush |-> 0, count |-> 0]

\* calculateRelevanceScore, in tenths, for an idle agent and an input whose
\* content names none of the agent's capabilities
calculateRelevanceScore(agentId, inputType) ==
    (IF inputType = "user_request"
     THEN IF NetworkAgentType[agentId] \in {"grammar", "planning"} THEN 5 ELSE 0
     ELSE IF NetworkAgentType[agentId] \in {"grammar", "context"} THEN 5 ELSE 0)
        + 2

\* the agents of score `level` and below, by descending score (stable)
RECURSIVE RelevantFrom(_, _, _)
RelevantFrom(agents, inputType, level) ==
    IF level <= 1 THEN <<>>
    ELSE SelectSeq(agents, LAMBDA a : calculateRelevanceScore(a, inputType) = level)
            \o RelevantFrom(agents, inputType, level - 1)

\* findRelevantAgents: score above 0.1, sorted by descending score
findRelevantAgents(agents, inputType) == RelevantFrom(agents, inputType, 10)

\* the ways an awaited call of processInput's loop can settle
Outcomes(pc) ==
    CASE pc = "perceive" -> {"understood", "notUnderstood", "throws"}
      [] pc = "reason" -> {"ok", "throws"}
      [] pc = "act" -> {"response", "responseWithMessage", "collaboration_request",
                        "throws"}
      [] pc = "collaborating" -> {"collaborated", "collaborationThrows"}
      [] OTHER -> {}

NetInit ==
    /\ networkAgents = <<>>
    /\ messageQueue = <<>>
    /\ isProcessing = FALSE
    /\ flight = NoFlight
    /\ delivered = <<>>
    /\ networkCount = [messages |-> 0, flushes |-> 0, registryCalls |-> 0]
    /\ inputCall = NoInput
    /\ eventHistory = <<>>

\* AgentNetworkCoordinator.registerAgent: Map.set keeps the place of a key
\* that is present
networkRegisterAgent(agentId) ==
    /\ networkCount.registryCalls < MaxRegistryCalls
    /\ networkCount' = [networkCount EXCEPT !.registryCalls = @ + 1]
    /\ networkAgents' = OrderedAdd(networkAgents, agentId)
    /\ UNCHANGED <<messageQueue, isProcessing, flight, delivered>>
    /\ UNCHANGED <<inputCall, eventHistory>>
    /\ UNCHANGED <<coordVars, infVars, memVars, zeroVars>>

\* the place of agentId in the map, 0 when absent
PlaceOf(agents, agentId) ==
    IF agentId \in Range(agents)
    THEN CHOOSE i \in DOMAIN agents : agents[i] = agentId
    ELSE 0

\* AgentNetworkCoordinator.unregisterAgent: an iterator of a running broadcast
\* that has passed the deleted entry moves back with it
networkUnregisterAgent(agentId) ==
    /\ networkCount.registryCalls < MaxRegistryCalls
    /\ networkCount' = [networkCount EXCEPT !.registryCalls = @ + 1]
    /\ networkAgents' = OrderedDelete(networkAgents, agentId)
    /\ flight' = IF /\ flight # NoFlight
                    /\ flight.messages[flight.index].toAgent = "all"
                    /\ PlaceOf(networkAgents, agentId) \in 1..flight.pos
                 THEN [flight EXCEPT !.pos = @ - 1]
                 ELSE flight
    /\ UNCHANGED <<messageQueue, isProcessing, delivered>>
    /\ UNCHANGED <<inputCall, eventHistory>>
    /\ UNCHANGED <<coordVars, infVars, memVars, zeroVars>>

\* the single-flight guard left out
StartFlushReentrant(queue, queued) ==
    IF queue = <<>>
    THEN /\ messageQueue' = queue
         /\ UNCHANGED <<isProcessing, flight, delivered>>
         /\ networkCount' = [networkCount EXCEPT !.messages = queued]
    ELSE /\ messageQueue' = <<>>
         /\ networkCount' = [networkCount EXCEPT !.messages = queued,
                                                  !.flushes = @ + 1]
         /\ Continue(NextDelivery(SortByUrgency(queue), 1, 0, networkAgents),
                     networkAgents)

\* processMessageQueue() with the queue given as queue, after queued messages
\* were queued in all: a no-op while a flush runs or when the queue is empty;
\* otherwise the flag is set, the queue is sorted and taken, and the loops run
\* to the first receiveMessage call
StartFlush(queue, queued) ==
    IF isProcessing \/ queue = <<>>
    THEN /\ messageQueue' = queue
         /\ UNCHANGED <<isProcessing, flight, delivered>>
         /\ networkCount' = [networkCount EXCEPT !.messages = queued]
    ELSE /\ messageQueue' = <<>>
         /\ networkCount' = [networkCount EXCEPT !.messages = queued,
                                                  !.flushes = @ + 1]
         /\ Continue(NextDelivery(SortByUrgency(queue), 1, 0, networkAgents),
                     networkAgents)

\* the AgentMessage that is queued: ids in queueing order, and the flush that
\* was running when it was queued (0 for none)
FullMessage(message) ==
    [id |-> networkCount.messages + 1, fromAgent |-> message.fromAgent,
     toAgent |-> message.toAgent, urgency |-> message.urgency,
     queuedInFlush |-> IF isProcessing THEN networkCount.flushes ELSE 0]

\* queueMessage(message), as processInput calls it for the messages of an
\* agent's output
queueMessage(message) ==
    /\ networkCount.messages < MaxMessages
    /\ messageQueue' = Append(messageQueue, FullMessage(message))
    /\ networkCount' = [networkCount EXCEPT !.messages = @ + 1]
    /\ UNCHANGED <<networkAgents, isProcessing, flight, delivered>>
    /\ UNCHANGED <<inputCall, eventHistory>>
    /\ UNCHANGED <<coordVars, infVars, memVars, zeroVars>>

\* broadcastMessage(message): queueMessage, then processMessageQueue
broadcastMessage(message) ==
    /\ networkCount.messages < MaxMessages
    /\ StartFlush(Append(messageQueue, FullMessage(message)),
                  networkCount.messages + 1)
    /\ UNCHANGED networkAgents
    /\ UNCHANGED <<inputCall, eventHistory>>
    /\ UNCHANGED <<coordVars, infVars, memVars, zeroVars>>

\* a call of processMessageQueue() by itself, as at the end of processInput
processMessageQueue ==
    /\ StartFlush(messageQueue, networkCount.messages)
    /\ UNCHANGED networkAgents
    /\ UNCHANGED <<inputCall, eventHistory>>
    /\ UNCHANGED <<coordVars, infVars, memVars, zeroVars>>

\* the awaited receiveMessage settles: the loops go on, or, when it threw, the
\* catch and finally blocks end the flush and the messages not yet dispatched
\* are gone
receiveMessageDone(threw) ==
    /\ flight # NoFlight
    /\ UNCHANGED <<networkAgents, messageQueue, networkCount>>
    /\ IF threw
       THEN Continue(NoFlight, networkAgents)
       ELSE Continue(NextDelivery(flight.messages,
                        IF flight.messages[flight.index].toAgent = "all"
                        THEN flight.index ELSE flight.index + 1,
                        IF flight.messages[flight.index].toAgent = "all"
                        THEN flight.pos ELSE 0,
                        networkAgents),
                     networkAgents)
    /\ UNCHANGED <<inputCall, eventHistory>>
    /\ UNCHANGED <<coordVars, infVars, memVars, zeroVars>>

\* availableAgents of handleCollaborationRequest: the registered agents other
\* than the requesting one (every agent of the model has status idle)
AvailableFor(agents, requestingAgentId) ==
    SelectSeq(agents, LAMBDA id : id # requestingAgentId)

\* the receiveMessage calls handleCollaborationRequest makes for a message to
\* "all", with the id the message gets when it is queued afterwards
HandedTo(available, messageId) ==
    [i \in DOMAIN available |-> [message |-> messageId, agent |-> available[i]]]

\* processInput goes on after the body of its loop ended for one agent with the
\* given local state and queue: the next agent's perceive is awaited, or, after
\* the last agent, processMessageQueue is called and awaited
NextAgent(call, queue, queued) ==
    IF call.index < Len(call.agents)
    THEN /\ inputCall' = [call EXCEPT !.pc = "perceive", !.index = @ + 1]
         /\ messageQueue' = queue
         /\ networkCount' = [networkCount EXCEPT !.messages = queued]
         /\ UNCHANGED <<isProcessing, flight, delivered>>
    ELSE /\ StartFlush(queue, queued)
         /\ inputCall' = [call EXCEPT !.pc = "flushing",
                             !.flush = IF isProcessing \/ queue = <<>>
                                       THEN 0 ELSE networkCount.flushes + 1]

\* processInput(input) up to its first await that a timer or I/O can precede:
\* the perceive call of the grammar agent in enhanceInput or, without a grammar
\* agent, the perceive call of the first relevant agent
processInput(inputType) ==
    /\ inputCall.pc \in {"none", "returned"}
    /\ inputCall.count < MaxInputs
    /\ LET call == [pc |-> "enhancing",
                    agents |-> findRelevantAgents(networkAgents, inputType),
                    index |-> 0, outputs |-> <<>>, outcomes |-> <<>>, flush |-> 0,
                    available |-> <<>>, handed |-> <<>>,
                    count |-> inputCall.count + 1]
       IN  IF \E i \in DOMAIN networkAgents : NetworkAgentType[networkAgents[i]] = "grammar"
           THEN /\ inputCall' = call
                /\ UNCHANGED <<messageQueue, networkCount, isProcessing, flight, delivered>>
           ELSE NextAgent(call, messageQueue, networkCount.messages)
    /\ UNCHANGED <<networkAgents, eventHistory>>
    /\ UNCHANGED <<coordVars, infVars, memVars, zeroVars>>

\* enhanceInput settles (a throw of the grammar agent is caught there) and the
\* loop over the relevant agents starts
inputEnhanced ==
    /\ inputCall.pc = "enhancing"
    /\ NextAgent(inputCall, messageQueue, networkCount.messages)
    /\ UNCHANGED <<networkAgents, eventHistory>>
    /\ UNCHANGED <<coordVars, infVars, memVars, zeroVars>>

\* the loop body without its try/catch: a throw of the agent leaves processInput
agentSettlesUncaught(outcome) ==
    /\ outcome \in Outcomes(inputCall.pc)
    /\ LET agent == inputCall.agents[inputCall.index]
           ended == [inputCall EXCEPT !.outcomes = Append(@, outcome)]
           pushed == [ended EXCEPT !.outputs = Append(@, agent)]
       IN  CASE outcome \in {"throws", "collaborationThrows"} ->
                  /\ inputCall' = [ended EXCEPT !.pc = "threw"]
                  /\ UNCHANGED <<eventHistory, messageQueue, networkCount,
                                 isProcessing, flight, delivered>>
             [] outcome = "notUnderstood" ->
                  /\ NextAgent(ended, messageQueue, networkCount.messages)
                  /\ UNCHANGED eventHistory
             [] outcome = "understood" ->
                  /\ inputCall' = [inputCall EXCEPT !.pc = "reason"]
                  /\ UNCHANGED <<eventHistory, messageQueue, networkCount,
                                 isProcessing, flight, delivered>>
             [] outcome = "ok" ->
                  /\ inputCall' = [inputCall EXCEPT !.pc = "act"]
                  /\ UNCHANGED <<eventHistory, messageQueue, networkCount,
                                 isProcessing, flight, delivered>>
             [] outcome = "response" ->
                  /\ NextAgent(pushed, messageQueue, networkCount.messages)
                  /\ UNCHANGED eventHistory
             [] outcome = "responseWithMessage" ->
                  /\ networkCount.messages < MaxMessages
                  /\ NextAgent(pushed,
                        Append(messageQueue,
                               FullMessage([fromAgent |-> agent, toAgent |-> "all",
                                            urgency |-> "medium"])),
                        networkCount.messages + 1)
                  /\ UNCHANGED eventHistory
             [] outcome = "collaboration_request" ->
                  /\ networkCount.messages < MaxMessages
                  /\ inputCall' = [inputCall EXCEPT !.pc = "collaborating",
                                        !.outputs = Append(@, agent),
                                        !.available = AvailableFor(networkAgents, agent)]
                  /\ UNCHANGED <<eventHistory, messageQueue, networkCount,
                                 isProcessing, flight, delivered>>
             [] outcome = "collaborated" ->
                  /\ NextAgent([ended EXCEPT
                                   !.handed = @ \o HandedTo(ended.available,
                                                            networkCount.messages + 1),
                                   !.available = <<>>],
                        Append(messageQueue,
                               FullMessage([fromAgent |-> agent, toAgent |-> "all",
                                            urgency |-> "medium"])),
                        networkCount.messages + 1)
                  /\ UNCHANGED eventHistory
    /\ UNCHANGED networkAgents
    /\ UNCHANGED <<coordVars, infVars, memVars, zeroVars>>

\* the awaited call of the loop body settles: perceive, reason, act, or the
\* receiveMessage calls of handleCollaborationRequest. A throw is caught: an
\* error_occurred event is logged for the agent and the loop goes on. An output
\* is pushed after act; its messages (one, where it has any) are queued after
\* the collaboration, if it asks for one
agentSettles(outcome) ==
    /\ outcome \in Outcomes(inputCall.pc)
    /\ LET agent == inputCall.agents[inputCall.index]
           ended == [inputCall EXCEPT !.outcomes = Append(@, outcome)]
           pushed == [ended EXCEPT !.outputs = Append(@, agent)]
       IN  CASE outcome \in {"throws", "collaborationThrows"} ->
                  /\ eventHistory' = Append(eventHistory, agent)
                  /\ NextAgent(ended, messageQueue, networkCount.messages)
             [] outcome = "notUnderstood" ->
                  /\ NextAgent(ended, messageQueue, networkCount.messages)
                  /\ UNCHANGED eventHistory
             [] outcome = "understood" ->
                  /\ inputCall' = [inputCall EXCEPT !.pc = "reason"]
                  /\ UNCHANGED <<eventHistory, messageQueue, networkCount,
                                 isProcessing, flight, delivered>>
             [] outcome = "ok" ->
                  /\ inputCall' = [inputCall EXCEPT !.pc = "act"]
                  /\ UNCHANGED <<eventHistory, messageQueue, networkCount,
                                 isProcessing, flight, delivered>>
             [] outcome = "response" ->
                  /\ NextAgent(pushed, messageQueue, networkCount.messages)
                  /\ UNCHANGED eventHistory
             [] outcome = "responseWithMessage" ->
                  /\ networkCount.messages < MaxMessages
                  /\ NextAgent(pushed,
                        Append(messageQueue,
                               FullMessage([fromAgent |-> agent, toAgent |-> "all",
                                            urgency |-> "medium"])),
                        networkCount.messages + 1)
                  /\ UNCHANGED eventHistory
             [] outcome = "collaboration_request" ->
                  /\ networkCount.messages < MaxMessages
                  /\ inputCall' = [inputCall EXCEPT !.pc = "collaborating",
                                        !.outputs = Append(@, agent),
                                        !.available = AvailableFor(networkAgents, agent)]
                  /\ UNCHANGED <<eventHistory, messageQueue, networkCount,
                                 isProcessing, flight, delivered>>
             [] outcome = "collaborated" ->
                  /\ NextAgent([ended EXCEPT
                                   !.handed = @ \o HandedTo(ended.available,
                                                            networkCount.messages + 1),
                                   !.available = <<>>],
                        Append(messageQueue,
                               FullMessage([fromAgent |-> agent, toAgent |-> "all",
                                            urgency |-> "medium"])),
                        networkCount.messages + 1)
                  /\ UNCHANGED eventHistory
    /\ UNCHANGED networkAgents
    /\ UNCHANGED <<coordVars, infVars, memVars, zeroVars>>

\* processInput after `await this.processMessageQueue()`: the call returned at
\* once, or the flush it started has ended; the outputs are returned
processInputReturns ==
    /\ inputCall.pc = "flushing"
    /\ \/ inputCall.flush = 0
       \/ ~isProcessing
       \/ networkCount.flushes # inputCall.flush
    /\ inputCall' = [inputCall EXCEPT !.pc = "returned"]
    /\ UNCHANGED <<networkAgents, messageQueue, isProcessing, flight, delivered,
                   networkCount, eventHistory>>
    /\ UNCHANGED <<coordVars, infVars, memVars, zeroVars>>

\* processInput calls made one at a time, while agents come and go and the
\* flushes deliver
NextNetInput ==
    \/ \E agentId \in NetworkAgentIds : networkRegisterAgent(agentId)
    \/ \E agentId \in NetworkAgentIds : networkUnregisterAgent(agentId)
    \/ \E inputType \in InputTypes : processInput(inputType)
    \/ inputEnhanced
    \/ \E outcome \in Outcomes(inputCall.pc) : agentSettles(outcome)
    \/ processInputReturns
    \/ \E threw \in BOOLEAN : receiveMessageDone(threw)

NextNet ==
    \/ \E agentId \in NetworkAgentIds : networkRegisterAgent(agentId)
    \/ \E agentId \in NetworkAgentIds : networkUnregisterAgent(agentId)
    \/ \E message \in MessageInputs : queueMessage(message)
    \/ \E message \in MessageInputs : broadcastMessage(message)
    \/ processMessageQueue
    \/ \E threw \in BOOLEAN : receiveMessageDone(threw)

----------------------------------------------------------------------------
(* MultiAgentCoordinator and AgentZero: tasks, runs and delegation *)

\* config.id of the agents the environment creates; generated ids start at 11
ZeroAgentIds == {1, 2}

\* enabled capabilities of each created agent: name -> confidence, in tenths
ZeroCapabilities == [id \in ZeroAgentIds |-> IF id = 2 THEN ("search" :> 5) ELSE EmptyMap]

\* task descriptions, as the keywords identifyRequiredTools looks for
Descriptions == {{"search"}, {"search", "code", "run"}}

\* identifyRequiredTools: the number of tools it returns
identifyRequiredTools(input) ==
    (IF "search" \in input \/ "find" \in input THEN 2 ELSE 0)
        + (IF "code" \in input \/ "program" \in input THEN 1 ELSE 0)
        + (IF "run" \in input \/ "execute" \in input THEN 1 ELSE 0)

\* shouldDelegate: perception.requiredTools.length > 3
shouldDelegate(input) == identifyRequiredTools(input) > 3

\* the suitability score of findBestAgent: capabilities named by the task,
\* 10 - subordinates, and a success rate that stays 0 (nothing counts tasks)
Suitability(id, state, description) ==
    SumOver(ZeroCapabilities[id], DOMAIN ZeroCapabilities[id] \cap description)
        + (10 - Len(state[id].subordinates))

\* the agents findBestAgent does not skip, in the order of the map
Candidates(agents, state) ==
    SelectSeq(agents, LAMBDA id : state[id].status \in {"idle", "thinking"})

\* findBestAgent: the first candidate of highest score, 0 for null
findBestAgent(agents, state, description) ==
    LET candidates == Candidates(agents, state)
    IN  IF candidates = <<>> THEN 0
        ELSE candidates[CHOOSE i \in DOMAIN candidates :
                \A j \in DOMAIN candidates :
                    \/ Suitability(candidates[i], state, description)
                          > Suitability(candidates[j], state, description)
                    \/ /\ Suitability(candidates[i], state, description)
                            = Suitability(candidates[j], state, description)
                       /\ i <= j]

ZeroInit ==
    /\ zeroAgents = <<>>
    /\ hierarchy = EmptyMap
    /\ zeroState = EmptyMap
    /\ zeroRuns = {}
    /\ zeroCalls = {}
    /\ zeroCount = [tasks |-> 0, subordinates |-> 0, runs |-> 0, enqueued |-> 0]

\* the children recorded for a parent
Children(h, parentId) == IF parentId \in DOMAIN h THEN h[parentId] ELSE <<>>

\* MultiAgentCoordinator.createAgent(config), for an id not used before
createAgent(id, superiorId) ==
    /\ id \notin DOMAIN zeroState
    /\ zeroAgents' = OrderedAdd(zeroAgents, id)
    /\ zeroState' = MapSet(zeroState, id,
                           [status |-> "idle", subordinates |-> <<>>,
                            superior |-> superiorId, subscribed |-> TRUE])
    /\ hierarchy' = IF superiorId # 0
                    THEN MapSet(hierarchy, superiorId,
                                Append(Children(hierarchy, superiorId), id))
                    ELSE hierarchy
    /\ UNCHANGED <<zeroRuns, zeroCalls, zeroCount>>
    /\ UNCHANGED <<coordVars, infVars, memVars, netVars>>

\* submitTask(task) up to `await this.findBestAgent(task)`: the assignee is
\* chosen now; without one the failure result is returned
zeroSubmitTask(description) ==
    /\ zeroCount.tasks < MaxZeroTasks
    /\ zeroCount' = [zeroCount EXCEPT !.tasks = @ + 1]
    /\ LET assignee == findBestAgent(zeroAgents, zeroState, description)
       IN  zeroCalls' = IF assignee = 0 THEN zeroCalls
                        ELSE zeroCalls \cup {[id |-> zeroCount.tasks + 1,
                                              assignee |-> assignee,
                                              description |-> description]}
    /\ UNCHANGED <<zeroAgents, hierarchy, zeroState, zeroRuns>>
    /\ UNCHANGED <<coordVars, infVars, memVars, netVars>>

\* submitTask after the await: the task is enqueued and processTask calls
\* agent.run, which sets the status to thinking and suspends in perceive
zeroSubmitResumes(call) ==
    /\ call \in zeroCalls
    /\ zeroCalls' = zeroCalls \ {call}
    /\ zeroState' = [zeroState EXCEPT ![call.assignee].status = "thinking"]
    /\ zeroRuns' = zeroRuns \cup {[id |-> zeroCount.runs + 1, agent |-> call.assignee,
                                   description |-> call.description,
                                   pc |-> "perceive", parent |-> 0]}
    /\ zeroCount' = [zeroCount EXCEPT !.runs = @ + 1, !.enqueued = @ + 1]
    /\ UNCHANGED <<zeroAgents, hierarchy>>
    /\ UNCHANGED <<coordVars, infVars, memVars, netVars>>

\* run() after perceive: reason plans, act starts. A plan that delegates makes
\* executeStep call delegateTask: createSubordinate (the subordinate_created
\* event reaches the coordinator when it subscribed to this agent), sendMessage
\* (status communicating) and subordinate.run(task.description). Otherwise the
\* tools are run with status executing
runPlanned(r) ==
    /\ r \in zeroRuns /\ r.pc = "perceive"
    /\ IF shouldDelegate(r.description)
       THEN /\ zeroCount.subordinates < MaxSubordinates
            /\ LET subordinateId == 10 + zeroCount.subordinates + 1
               IN  /\ zeroState' =
                          MapSet([zeroState EXCEPT
                                     ![r.agent].subordinates = Append(@, subordinateId),
                                     ![r.agent].status = "communicating"],
                                 subordinateId,
                                 [status |-> "thinking", subordinates |-> <<>>,
                                  superior |-> r.agent, subscribed |-> FALSE])
                   /\ hierarchy' =
                          IF zeroState[r.agent].subscribed
                             /\ subordinateId \notin Range(Children(hierarchy, r.agent))
                          THEN MapSet(hierarchy, r.agent,
                                      Append(Children(hierarchy, r.agent), subordinateId))
                          ELSE hierarchy
                   /\ zeroRuns' = (zeroRuns \ {r})
                          \cup {[r EXCEPT !.pc = "delegated"],
                                [id |-> zeroCount.runs + 1, agent |-> subordinateId,
                                 description |-> r.description, pc |-> "perceive",
                                 parent |-> r.id]}
                   /\ zeroCount' = [zeroCount EXCEPT !.subordinates = @ + 1,
                                                     !.runs = @ + 1]
       ELSE /\ zeroState' = [zeroState EXCEPT ![r.agent].status = "executing"]
            /\ zeroRuns' = (zeroRuns \ {r}) \cup {[r EXCEPT !.pc = "act"]}
            /\ UNCHANGED <<hierarchy, zeroCount>>
    /\ UNCHANGED <<zeroAgents, zeroCalls>>
    /\ UNCHANGED <<coordVars, infVars, memVars, netVars>>

\* run() ends: the remaining steps and learn are done, the status is idle and
\* the result is returned; a delegateTask that awaited this run goes on
runReturns(r) ==
    /\ r \in zeroRuns /\ r.pc = "act"
    /\ zeroState' = [zeroState EXCEPT ![r.agent].status = "idle"]
    /\ zeroRuns' = {IF q.id = r.parent THEN [q EXCEPT !.pc = "act"] ELSE q :
                        q \in zeroRuns \ {r}}
    /\ UNCHANGED <<zeroAgents, hierarchy, zeroCalls, zeroCount>>
    /\ UNCHANGED <<coordVars, infVars, memVars, netVars>>

NextZero ==
    \/ \E id \in ZeroAgentIds, superiorId \in {0} \cup ZeroAgentIds :
          id # superiorId /\ createAgent(id, superiorId)
    \/ \E description \in Descriptions : zeroSubmitTask(description)
    \/ \E call \in zeroCalls : zeroSubmitResumes(call)
    \/ \E r \in zeroRuns : runPlanned(r)
    \/ \E r \in zeroRuns : runReturns(r)

----------------------------------------------------------------------------
(* Specifications *)

\* constructor defaults of InferenceCoordinator
DefaultConfig ==
    [loadBalancing |-> "least-loaded", enableCaching |-> TRUE,
     cacheSize |-> 1000, maxEngines |-> 3]

DefaultMemoryConfig == [enabled |-> TRUE, maxMemories |-> 3]

Init ==
    /\ CoordInit
    /\ InfInit(DefaultConfig)
    /\ MemInit(DefaultMemoryConfig)
    /\ NetInit
    /\ ZeroInit

SpecCoord == Init /\ [][NextCoord]_vars

InitInf ==
    /\ CoordInit
    /\ \E cfg \in Configs : InfInit(cfg)
    /\ MemInit(DefaultMemoryConfig)
    /\ NetInit
    /\ ZeroInit

\* the coordinator when callers also submit tasks that require no skill
NextCoordAnySkills ==
    \/ \E agent \in AgentIds : registerAgent(agent)
    \/ \E agentId \in AgentIds : unregisterAgent(agentId)
    \/ \E s \in Submissions : submitTask(s.requiredSkills, s.priority)
    \/ submitTask({}, "medium")
    \/ \E e \in executing, success \in BOOLEAN, duration \in Durations :
          completeTask(e, success, duration)

SpecCoordAnySkills == Init /\ [][NextCoordAnySkills]_vars

\* the coordinator when A is registered, then B, each once and neither is
\* unregistered, and every task requires skill x, which both agents have with
\* confidence 0.9
NextCoordInOrder ==
    \/ "A" \notin agentPool.agents /\ registerAgent("A")
    \/ "A" \in agentPool.agents /\ "B" \notin agentPool.agents /\ registerAgent("B")
    \/ submitTask({"x"}, "high")
    \/ \E e \in executing, success \in BOOLEAN, duration \in Durations :
          completeTask(e, success, duration)

SpecCoordInOrder == Init /\ [][NextCoordInOrder]_vars

SpecInf == InitInf /\ [][NextInf]_vars

SpecCache == InitInf /\ [][NextCache]_vars

\* the coordinator used through initialize, submit and shutdown only: no
\* stream() or embed() call is made
NextInfJobs ==
    \/ \E engineCount \in EngineCounts : initialize(engineCount)
    \/ engineLoaded
    \/ \E request \in Requests, priority \in Priorities : submit(request, priority)
    \/ \E op \in running, success \in BOOLEAN : jobDone(op, success)
    \/ processQueue
    \/ shutdown
    \/ \E timedOut \in BOOLEAN : shutdownClear(timedOut)
    \/ tick

SpecInfJobs == InitInf /\ [][NextInfJobs]_vars

\* a coordinator configured for round-robin with room for three engines
RoundRobinConfig ==
    [loadBalancing |-> "round-robin", enableCaching |-> TRUE,
     cacheSize |-> 1000, maxEngines |-> 3]

InitRoundRobin ==
    /\ CoordInit
    /\ InfInit(RoundRobinConfig)
    /\ MemInit(DefaultMemoryConfig)
    /\ NetInit
    /\ ZeroInit

\* initialize(modelPath, 3) is awaited first; jobs are submitted to the three
\* loaded engines
NextRoundRobin ==
    \/ \E engineCount \in EngineCounts : initialize(engineCount)
    \/ engineLoaded
    \/ \E request \in Requests, priority \in Priorities :
          lifecycle.init = "done" /\ submit(request, priority)
    \/ \E op \in running, success \in BOOLEAN : jobDone(op, success)
    \/ processQueue
    \/ tick

SpecRoundRobin == InitRoundRobin /\ [][NextRoundRobin]_vars

InitMem ==
    /\ CoordInit
    /\ InfInit(DefaultConfig)
    /\ \E cfg \in MemoryConfigs : MemInit(cfg)
    /\ NetInit
    /\ ZeroInit

SpecMemSeq == InitMem /\ [][NextMemSeq]_vars

SpecMemRetrieve == InitMem /\ [][NextMemRetrieve]_vars

SpecMemOverlap == InitMem /\ [][NextMemOverlap]_vars

SpecMemAging == InitMem /\ [][NextMemAging]_vars

SpecNet == Init /\ [][NextNet]_vars

SpecNetInput == Init /\ [][NextNetInput]_vars

SpecZero == Init /\ [][NextZero]_vars


----------------------------------------------------------------------------
(* AdvancedAgentCoordinator: properties *)

QueuedTasks(q) == Range(q.high) \cup Range(q.medium) \cup Range(q.low)

QueuedIds(q) == {t.id : t \in QueuedTasks(q)}

BusyCount(pool, agentId) ==
    IF agentId \in DOMAIN pool.busyAgents THEN pool.busyAgents[agentId] ELSE 0

\* the agent could be selected for the task: every required skill, positive score
CanTake(agent, task) ==
    /\ \A skill \in task.requiredSkills : skill \in DOMAIN Capabilities[agent]
    /\ SumOver(Capabilities[agent], DOMAIN Capabilities[agent] \cap task.requiredSkills) > 0

\* C1 (as claimed): no medium- or low-tier task is dispatched to an agent while a
\* task submitted as high, which that agent could take, is still waiting.
C1_HighDispatchedFirst ==
    [][\A d \in executing' \ executing :
          submittedTier'[d.task.id] # "high" =>
              \A h \in QueuedTasks(taskQueue') :
                  submittedTier'[h.id] = "high" => ~CanTake(d.agent, h)]_vars

\* C2 (as claimed): the idle set and the active set are disjoint and together are
\* exactly the registered agent ids.
C2_IdleActivePartition ==
    /\ Range(agentPool.idleAgents) \cap agentPool.activeAgents = {}
    /\ Range(agentPool.idleAgents) \cup agentPool.activeAgents = agentPool.agents

FirstInPopOrder(q) ==
    IF q.high # <<>> THEN Head(q.high)
    ELSE IF q.medium # <<>> THEN Head(q.medium) ELSE Head(q.low)

C7_UnregisteredInNoSet ==
    \A a \in AgentIds \ agentPool.agents :
        /\ a \notin Range(agentPool.idleAgents)
        /\ a \notin agentPool.activeAgents
        /\ a \notin DOMAIN agentPool.busyAgents

\* C8: every task handed to executeTask goes to an agent that has every required
\* skill of the task and that was in the idle set when it was selected (idle
\* before the turn, or put back into the idle set earlier in the same turn).
C8_DispatchOnlyToSkilledIdleAgent ==
    [][\A d \in executing' \ executing :
          /\ \A skill \in d.task.requiredSkills : skill \in DOMAIN Capabilities[d.agent]
          /\ \/ d.agent \in Range(agentPool.idleAgents)
             \/ \E e \in executing \ executing' :
                   e.agent = d.agent /\ BusyCount(agentPool, e.agent) <= 1]_vars

\* C8 witness: a task needing both skills is executing on B while A, which has
\* only one of them, is registered.
C8_Witness ==
    \E e \in executing :
        /\ e.task.requiredSkills = {"x", "y"}
        /\ e.agent = "B"
        /\ "A" \in agentPool.agents
        /\ "A" \notin agentPool.activeAgents

\* C9: every failure counted in failedTasks has exactly one report to the error
\* handler; a task whose execution threw is in no tier of the queue, is not
\* executing, and was handed to executeTask exactly once; the only tasks in the
\* queue are tasks that were never handed to executeTask.
C9_FailedTaskNotRetried ==
    /\ metrics.failedTasks = Cardinality(errorLog)
    /\ metrics.failedTasks = Cardinality({r.taskId : r \in errorLog})
    /\ \A r \in errorLog :
          /\ r.taskId \notin QueuedIds(taskQueue)
          /\ r.taskId \notin {e.task.id : e \in executing}
          /\ dispatchCount[r.taskId] = 1
    /\ \A id \in QueuedIds(taskQueue) : id \notin DOMAIN dispatchCount

\* C9 witness: a task has failed, and another task was re-queued into the medium
\* tier by the no-agent path.
C9_Witness ==
    /\ errorLog # {}
    /\ \E t \in Range(taskQueue.medium) : submittedTier[t.id] # "medium"

\* C10 (as claimed): the agent of an execution that ends is in the idle set and in
\* neither the active nor the busy set, unless the same turn hands it a new task.
C10_AgentReleasedToIdle ==
    [][\A e \in executing \ executing' :
          \/ \E d \in executing' \ executing : d.agent = e.agent
          \/ /\ e.agent \in Range(agentPool'.idleAgents)
             /\ e.agent \notin agentPool'.activeAgents
             /\ e.agent \notin DOMAIN agentPool'.busyAgents]_vars


----------------------------------------------------------------------------
(* InferenceCoordinator and MemoryManager: claims *)

OperationsOn(engineId) == {op \in running : op.engine = engineId}

\* C3: each engine services at most one operation at a time: no engine has two
\* jobs or streams running on it, and no engine is marked idle while a job or
\* stream is still running on it
C3_OneOperationPerEngine ==
    \A engineId \in DOMAIN engineStatus :
        /\ Cardinality(OperationsOn(engineId)) <= 1
        /\ engineStatus[engineId].status = "idle" => OperationsOn(engineId) = {}

SubmitStep ==
    infMetrics'.totalJobs + infMetrics'.cacheHits
        = infMetrics.totalJobs + infMetrics.cacheHits + 1

\* C5: with caching enabled, a submit whose parameters have an entry in the
\* cache that is younger than the TTL returns that entry's response, which an
\* earlier call with the same parameters produced, counts one cache hit, and
\* starts no job: no engine changes, nothing is queued, no job is counted
C5_SecondSubmitServedFromCache ==
    [][(/\ SubmitStep
        /\ config.enableCaching
        /\ \E i \in DOMAIN responseCache :
              /\ responseCache[i].key = returned'.key
              /\ now - responseCache[i].timestamp < CacheTtl)
       => (/\ returned'.kind = "cached"
           /\ \E i \in DOMAIN responseCache :
                 /\ responseCache[i].key = returned'.key
                 /\ responseCache[i].response = returned'.response
           /\ getCacheKey(returned'.response.request) = returned'.key
           /\ returned'.response.job \in 1..infMetrics.totalJobs
           /\ infMetrics'.cacheHits = infMetrics.cacheHits + 1
           /\ infMetrics'.totalJobs = infMetrics.totalJobs
           /\ engineStatus' = engineStatus
           /\ running' = running
           /\ jobQueue' = jobQueue
           /\ promises' = promises)]_vars

\* C5: the second submit call was answered from the cache with the response of
\* the first
C5_Witness ==
    /\ config.enableCaching
    /\ returned.kind = "cached"
    /\ returned.response.job = 1
    /\ infMetrics.cacheHits = 1
    /\ infMetrics.totalJobs = 1
    /\ infMetrics.completedJobs = 1
    /\ \A i \in DOMAIN engineStatus : engineStatus[i].processedJobs <= 1


\* a goes before b in the queue order: higher priority, or equal priority and
\* submitted earlier (job ids are given in submission order)
GoesBefore(a, b) ==
    \/ a.priority > b.priority
    \/ a.priority = b.priority /\ a.id < b.id

\* C11: the job queue is always in descending priority with equal priorities in
\* submission order, and jobs leave it from the front only
C11_QueueOrderedByPriority ==
    /\ [](\A i, j \in DOMAIN jobQueue : i < j => GoesBefore(jobQueue[i], jobQueue[j]))
    /\ [][Len(jobQueue') < Len(jobQueue)
            => jobQueue' = SubSeq(jobQueue, Len(jobQueue) - Len(jobQueue') + 1,
                                  Len(jobQueue))]_vars

\* C11: a job of higher priority was put ahead of a job submitted before it
C11_Witness ==
    /\ Len(jobQueue) = 2
    /\ jobQueue[1].id > jobQueue[2].id
    /\ jobQueue[1].priority > jobQueue[2].priority

\* C12: no job is started on an engine while a job that goes before it (higher
\* priority, or equal priority and submitted earlier) is still in the queue
C12_NoJobStartedAheadOfQueue ==
    [][\A op \in running' \ running :
          op.kind = "job"
              => \A i \in DOMAIN jobQueue' : ~GoesBefore(jobQueue'[i], op)]_vars

\* C14: after shutdown() was called a submit neither queues a job nor starts
\* one on an engine
C14_NoWorkAcceptedAfterShutdown ==
    [][lifecycle.shutdown # "none" /\ SubmitStep
          => jobQueue' = jobQueue /\ running' = running]_vars

\* a step in which the job of op ends with a throw of the engine
FailureStep(op) ==
    /\ op \in running \ running'
    /\ op.kind = "job"
    /\ infMetrics'.completedJobs = infMetrics.completedJobs

\* C15: when a job fails, failedJobs grows by one and completedJobs stays, the
\* promise of the caller goes from pending to rejected, the engine is idle
\* again, and the queue is untouched and still served: the dispatch loop has
\* not stopped, and with a job waiting its next pass starts the head of the
\* queue
C15_FailedJobCountedAndRejected ==
    [][\A op \in running :
          FailureStep(op)
              => /\ infMetrics'.failedJobs = infMetrics.failedJobs + 1
                 /\ infMetrics'.totalJobs = infMetrics.totalJobs
                 /\ promises[op.id] = "pending"
                 /\ promises'[op.id] = "rejected"
                 /\ op.engine \in DOMAIN engineStatus'
                        => engineStatus'[op.engine].status = "idle"
                 /\ jobQueue' = jobQueue
                 /\ lifecycle' = lifecycle
                 /\ isRunning' = isRunning
                 /\ (jobQueue' # <<>> /\ isRunning' /\ op.engine \in DOMAIN engineStatus')
                        => /\ lifecycle'.loop = "polling"
                           /\ DispatchQueued(engineStatus', jobQueue', running',
                                  config.loadBalancing, now).jobQueue
                                = Tail(jobQueue')]_vars

\* C15: a job has failed while another job waits in the queue of the running
\* coordinator
C15_Witness ==
    /\ infMetrics.failedJobs = 1
    /\ infMetrics.completedJobs = 0
    /\ \E id \in DOMAIN promises : promises[id] = "rejected"
    /\ jobQueue # <<>>
    /\ isRunning
    /\ \E i \in DOMAIN engineStatus : engineStatus[i].status = "idle"


\* C13: an engine with a stream running on it is marked processing, and when a
\* stream ends its engine is idle
C13_StreamEngineProcessingThenIdle ==
    /\ [](\A op \in running :
            op.kind = "stream" /\ op.engine \in DOMAIN engineStatus
                => engineStatus[op.engine].status = "processing")
    /\ [][\A op \in running \ running' :
            op.kind = "stream" /\ op.engine \in DOMAIN engineStatus'
                => engineStatus'[op.engine].status = "idle"]_vars


\* the jobs given to an engine so far that did not fail: those it has processed
\* and those running on it
JobsGivenTo(engineId) ==
    engineStatus[engineId].processedJobs
        + Cardinality({op \in OperationsOn(engineId) : op.kind = "job"})

\* C17: with round-robin and three engines that were idle before the first
\* submit, up to three jobs submitted without a cache hit go to distinct engines:
\* no engine is given two of them
C17_RoundRobinDistinctEngines ==
    (/\ config.loadBalancing = "round-robin"
     /\ Len(engineStatus) = 3
     /\ infMetrics.cacheHits = 0
     /\ infMetrics.totalJobs <= 3)
        => \A engineId \in DOMAIN engineStatus : JobsGivenTo(engineId) <= 1


----------------------------------------------------------------------------
(* AgentNetworkCoordinator: claims *)

DeliveriesOf(log, messageId, agentId) ==
    {i \in DOMAIN log : log[i].message = messageId /\ log[i].agent = agentId}

\* C18: a message to "all" reaches, exactly once, every agent other than its
\* sender that was registered when its flush ended, and never its sender; a
\* message with a specific target reaches only that agent. Stated when a flush
\* ends, over the messages that flush had taken from the queue
C18_BroadcastOnceToAllButSender ==
    [][(isProcessing /\ ~isProcessing')
        => \A i \in DOMAIN flight.messages :
              LET m == flight.messages[i]
              IN  /\ DeliveriesOf(delivered', m.id, m.fromAgent) = {}
                  /\ m.toAgent = "all"
                        => \A agentId \in Range(networkAgents) \ {m.fromAgent} :
                              Cardinality(DeliveriesOf(delivered', m.id, agentId)) = 1
                  /\ m.toAgent # "all"
                        => \A agentId \in NetworkAgentIds \ {m.toAgent} :
                              DeliveriesOf(delivered', m.id, agentId) = {}]_vars

\* the message with a given id, among those a flush holds
UrgencyAt(k) == urgencyOrder[flight.messages[
                    CHOOSE i \in DOMAIN flight.messages :
                        flight.messages[i].id = delivered[k].message].urgency]

\* C19: within one flush the receiveMessage calls are made in non-increasing
\* urgency of their messages, and for equal urgency in the order the messages
\* were queued (ids are given in queueing order)
C19_FlushInUrgencyOrder ==
    flight # NoFlight
        => \A k, l \in DOMAIN delivered :
              (/\ k < l
               /\ delivered[k].flush = networkCount.flushes
               /\ delivered[l].flush = networkCount.flushes)
                  => \/ UrgencyAt(k) > UrgencyAt(l)
                     \/ UrgencyAt(k) = UrgencyAt(l)
                            /\ delivered[k].message <= delivered[l].message

\* C19: a flush has delivered a later queued message of higher urgency before an
\* earlier queued one
C19_Witness ==
    /\ flight # NoFlight
    /\ \E k, l \in DOMAIN delivered :
          /\ k < l
          /\ delivered[k].flush = networkCount.flushes
          /\ delivered[l].flush = networkCount.flushes
          /\ delivered[k].message > delivered[l].message
          /\ UrgencyAt(k) > UrgencyAt(l)

\* C20: while a flush is in progress no other flush starts and nothing is
\* taken from the queue, so a message queued meanwhile stays queued; a step that
\* is not the continuation of the flush in progress makes no receiveMessage
\* call; and no message is delivered in the flush during which it was queued
C20_SingleFlightFlush ==
    /\ [][isProcessing
            => /\ networkCount'.flushes = networkCount.flushes
               /\ Len(messageQueue') >= Len(messageQueue)
               /\ SubSeq(messageQueue', 1, Len(messageQueue)) = messageQueue
               /\ flight' = flight
                     => delivered' = delivered /\ isProcessing']_vars
    /\ [](\A k \in DOMAIN delivered :
            \A i \in DOMAIN flight.messages :
                flight.messages[i].id = delivered[k].message
                    => flight.messages[i].queuedInFlush < delivered[k].flush)
    /\ [](isProcessing => \A i \in DOMAIN messageQueue :
                            messageQueue[i].queuedInFlush = networkCount.flushes)

\* C20: a message was queued during a flush, is still in the queue, and the
\* flush goes on
C20_Witness ==
    /\ isProcessing
    /\ messageQueue # <<>>
    /\ \E k \in DOMAIN delivered : delivered[k].flush = networkCount.flushes


\* a step on which a retrieve() call returns
RetrieveReturns ==
    /\ retrieval'.pc = "done"
    /\ retrieval.pc = "embedding" \/ retrieval'.count # retrieval.count

\* the record of the store with the given id, as it was when the call scored it
RecordOf(id) == memories[CHOOSE i \in DOMAIN memories : memories[i].id = id]

ScoreFor(id, query) == RetrievalScore(RecordOf(id), embeddings, query, today)

\* C16: retrieve(query, limit) returns at most limit records, they are the
\* records of the store with the highest retrieval scores, in descending order
\* of score; with limit 1 a record whose content equals the query comes first
C16_RetrieveTopByScoreExactFirst ==
    [][RetrieveReturns =>
          LET result == retrieval'.result
              query == retrieval'.query
              limit == retrieval'.limit
              stored == {memories[i].id : i \in DOMAIN memories}
              returned_ == {result[k] : k \in DOMAIN result}
          IN  /\ Len(result) <= limit
              /\ returned_ \subseteq stored
              /\ Len(result) = Min({limit, Len(memories)})
              /\ \A k, l \in DOMAIN result :
                    k < l => /\ result[k] # result[l]
                             /\ ScoreFor(result[k], query) >= ScoreFor(result[l], query)
              /\ \A id \in returned_ : \A other \in stored \ returned_ :
                    ScoreFor(id, query) >= ScoreFor(other, query)
              /\ (limit = 1 /\ \E i \in DOMAIN memories : memories[i].content = query)
                    => /\ result # <<>>
                       /\ RecordOf(result[1]).content = query]_vars


PoppedWithoutAgent(pool, queue, utilization) ==
    /\ Cardinality(DOMAIN pool.busyAgents) < maxConcurrentTasks
    /\ ~QueueIsEmpty(queue)
    /\ getBestAgentForTask(pool, utilization, FirstInPopOrder(queue)) = NoAgent

\* the queue with its first task in pop order moved to the tail of the medium tier
RequeuedToMedium(queue) ==
    LET task == FirstInPopOrder(queue)
        rest == IF queue.high # <<>> THEN [queue EXCEPT !.high = Tail(@)]
                ELSE IF queue.medium # <<>> THEN [queue EXCEPT !.medium = Tail(@)]
                ELSE [queue EXCEPT !.low = Tail(@)]
    IN  [rest EXCEPT !.medium = Append(@, task)]

\* C30: when processTasks pops a task and no idle agent qualifies, the task goes
\* to the tail of the medium tier whatever tier it came from, no agent's pool
\* membership changes and the call dispatches nothing; stated for the call at the
\* end of submitTask and for the call in the finally block of a completion
C30_UndispatchableRequeuedToMediumTail ==
    /\ [][\A s \in Submissions :
            LET id == metrics.totalTasks + 1
                pushed == [taskQueue EXCEPT ![s.priority] =
                              Append(@, [id |-> id, requiredSkills |-> s.requiredSkills])]
            IN  ( /\ metrics'.totalTasks = id
                  /\ submittedTier'[id] = s.priority
                  /\ PoppedWithoutAgent(agentPool, pushed, metrics.agentUtilization) )
                => /\ taskQueue' = RequeuedToMedium(pushed)
                   /\ agentPool' = agentPool
                   /\ executing' = executing
                   /\ dispatchCount' = dispatchCount]_vars
    /\ [][\A e \in executing \ executing' :
            LET released == markAgentIdle(agentPool, e.agent)
            IN  PoppedWithoutAgent(released, taskQueue, metrics'.agentUtilization)
                => /\ taskQueue' = RequeuedToMedium(taskQueue)
                   /\ agentPool' = released
                   /\ executing' = executing \ {e}
                   /\ dispatchCount' = dispatchCount]_vars

\* C30 witness: a task submitted as high and a task submitted as low have both
\* been re-queued behind an older task of the medium tier
C30_Witness ==
    /\ Len(taskQueue.medium) = 3
    /\ submittedTier[taskQueue.medium[1].id] = "medium"
    /\ \E i, j \in 2..3 : /\ submittedTier[taskQueue.medium[i].id] = "high"
                          /\ submittedTier[taskQueue.medium[j].id] = "low"


\* C26: every submitted task that some registered agent can take is eventually
\* executed. processTasks runs only inside submitTask and after an execution, so
\* once nothing is executing only a further call from outside can move the queue:
\* in such a state no queued task may be left that a registered idle agent could
\* take
C26_NoDispatchableTaskLeftWaiting ==
    executing = {} =>
        \A task \in QueuedTasks(taskQueue) :
            ~\E agent \in agentPool.agents :
                /\ agent \in Range(agentPool.idleAgents)
                /\ CanTake(agent, task)


C28_PendingPromiseHasItsJob ==
    \A id \in DOMAIN promises :
        promises[id] = "pending" =>
            \/ \E op \in running : op.kind = "job" /\ op.id = id
            \/ \E i \in DOMAIN jobQueue : jobQueue[i].id = id


\* C27: the store holds at most maxMemories records also when store calls
\* overlap, whatever the order in which the suspended calls resume
C27_SizeWithinMaxMemoriesOverlapping ==
    Len(memories) <= memConfig.maxMemories


\* the agent's run left an output in processInput's outputs
HasOutput(outcome) ==
    outcome \in {"response", "responseWithMessage", "collaborated", "collaborationThrows"}

\* C23: processInput never throws because of an agent; when an agent's perceive,
\* reason or act throws, an error_occurred event is logged for that agent, the
\* remaining relevant agents are still run and their outputs are returned
C23_AgentErrorsCaughtAndLogged ==
    /\ [](inputCall.pc # "threw")
    /\ [][inputCall'.outcomes = Append(inputCall.outcomes, "throws")
            => /\ eventHistory' = Append(eventHistory, inputCall.agents[inputCall.index])
               /\ inputCall'.outputs = inputCall.outputs
               /\ IF inputCall.index < Len(inputCall.agents)
                  THEN inputCall'.pc = "perceive" /\ inputCall'.index = inputCall.index + 1
                  ELSE inputCall'.pc = "flushing"]_vars
    /\ [](inputCall.pc \in {"flushing", "returned"}
            => /\ Len(inputCall.outcomes) = Len(inputCall.agents)
               /\ \A i \in DOMAIN inputCall.agents :
                     HasOutput(inputCall.outcomes[i])
                        <=> inputCall.agents[i] \in Range(inputCall.outputs)
               /\ Len(inputCall.outputs)
                     = Cardinality({i \in DOMAIN inputCall.outcomes :
                                       HasOutput(inputCall.outcomes[i])}))

\* C23 witness: the first of three relevant agents threw, the two after it were
\* run and their outputs were returned
C23_Witness ==
    /\ inputCall.pc = "returned"
    /\ Len(inputCall.agents) = 3
    /\ inputCall.outcomes[1] = "throws"
    /\ HasOutput(inputCall.outcomes[2]) /\ HasOutput(inputCall.outcomes[3])
    /\ inputCall.outputs = SubSeq(inputCall.agents, 2, 3)
    /\ eventHistory = <<inputCall.agents[1]>>


\* C24: every agent id that appears as a child in the hierarchy map is also a
\* key of the MultiAgentCoordinator's agents map
C24_HierarchyChildrenAreInAgents ==
    \A parentId \in DOMAIN hierarchy :
        \A childId \in Range(hierarchy[parentId]) : childId \in Range(zeroAgents)

\* C25: delegateTask creates exactly one subordinate: the run of a subordinate
\* created by delegateTask, given the same description, does not delegate again
C25_SubordinateRunDoesNotDelegate ==
    \A r \in zeroRuns : r.parent # 0 => r.pc # "delegated"

\* C29: no AgentZero has two run() calls in progress at the same time
C29_OneRunPerAgent ==
    \A r1, r2 \in zeroRuns : r1.agent = r2.agent => r1.id = r2.id


\* C31: totalTasks equals completedTasks plus failedTasks plus the tasks in the
\* three tiers plus the tasks executing; every task is in at most one of those
\* places, at most once, and no task was handed to executeTask more than once
C31_TasksNeitherLostNorDuplicated ==
    /\ metrics.totalTasks = metrics.completedTasks + metrics.failedTasks
            + Len(taskQueue.high) + Len(taskQueue.medium) + Len(taskQueue.low)
            + Cardinality(executing)
    /\ Cardinality(QueuedIds(taskQueue))
            = Len(taskQueue.high) + Len(taskQueue.medium) + Len(taskQueue.low)
    /\ Cardinality({e.task.id : e \in executing}) = Cardinality(executing)
    /\ QueuedIds(taskQueue) \cap {e.task.id : e \in executing} = {}
    /\ \A id \in DOMAIN dispatchCount : dispatchCount[id] = 1

\* C31 witness: one task has failed, and of two further tasks one is executing
\* and one was popped and put back into the medium tier
C31_Witness ==
    /\ metrics.failedTasks = 1
    /\ executing # {}
    /\ \E t \in Range(taskQueue.medium) : submittedTier[t.id] # "medium"


\* no registered agent is a recipient of the message
HasNoRecipient(m, agents) ==
    IF m.toAgent = "all" THEN Range(agents) \ {m.fromAgent} = {}
    ELSE m.toAgent \notin Range(agents)

\* C32: when a flush ends, after a throw of receiveMessage or not, every message
\* the flush had taken from the queue was handed to receiveMessage, or has no
\* recipient, or is in the queue again
C32_ThrowLosesNoMessage ==
    [][(isProcessing /\ ~isProcessing')
        => \A i \in DOMAIN flight.messages :
              LET m == flight.messages[i]
              IN  \/ \E k \in DOMAIN delivered' : delivered'[k].message = m.id
                  \/ HasNoRecipient(m, networkAgents)
                  \/ \E j \in DOMAIN messageQueue' : messageQueue'[j].id = m.id]_vars


\* C33: a message that handleCollaborationRequest handed to an agent during a
\* processInput call is not handed to the same agent again by a queue flush
C33_CollaborationMessageDeliveredOnce ==
    \A i \in DOMAIN inputCall.handed :
        DeliveriesOf(delivered, inputCall.handed[i].message,
                     inputCall.handed[i].agent) = {}


\* C34: a task submitted while the queue is empty and the pool is below its
\* limit is handed at once to an idle agent of highest score whenever some idle
\* agent has a score of 0 or more for it (a score of exactly 0 included)
C34_NonNegativeScoreEligible ==
    [][(/\ metrics'.totalTasks = metrics.totalTasks + 1
        /\ QueueIsEmpty(taskQueue)
        /\ Cardinality(DOMAIN agentPool.busyAgents) < maxConcurrentTasks)
        => \A t \in QueuedTasks(taskQueue') \cup {e.task : e \in executing' \ executing} :
              LET scores == {AgentScore(a, t, metrics.agentUtilization) :
                                a \in Range(AvailableAgents(agentPool))}
              IN  (\E sc \in scores : sc >= 0)
                     => \E d \in executing' \ executing :
                           /\ d.task = t
                           /\ \A sc \in scores :
                                 AgentScore(d.agent, t, metrics.agentUtilization) >= sc]_vars

\* C35: when submitTask hands a task to B, agent A, registered before B, was not
\* idle with the same score
C35_TieGoesToEarliestRegistered ==
    [][metrics'.totalTasks = metrics.totalTasks + 1
        => \A d \in executing' \ executing :
              (/\ d.agent = "B"
               /\ "A" \in Range(AvailableAgents(agentPool)))
                  => AgentScore("A", d.task, metrics.agentUtilization)
                        # AgentScore("B", d.task, metrics.agentUtilization)]_vars


\* the entries whose key is no longer in the cache after the step
EvictedEntries == {e \in Range(responseCache) : ~CacheHas(responseCache', e.key)}

\* C36: when a response is cached while the cache is full, no entry is evicted
\* if the key is already present; otherwise exactly one entry is evicted and no
\* entry of the cache was cached earlier than it
C36_FullCacheEvictsOldestOnly ==
    [][\A request \in Requests, response \in Responses :
          (/\ config.enableCaching
           /\ response.request = request
           /\ Len(responseCache) >= config.cacheSize
           /\ responseCache' = cacheResponse(responseCache, config.cacheSize,
                                             getCacheKey(request), response, now))
             => IF CacheHas(responseCache, getCacheKey(request))
                THEN EvictedEntries = {}
                ELSE /\ Cardinality(EvictedEntries) = 1
                     /\ \A e \in EvictedEntries :
                           \A other \in Range(responseCache) :
                               e.timestamp <= other.timestamp]_vars


\* the eviction score as specified, times 3000: the recency term
\* 1 - ageInDays / 30 is floored at 0
FlooredScore(m, t) ==
    150 * m.relevanceScore + 9 * m.accessCount
        + (IF t - m.timestamp < 30 THEN 600 - 20 * (t - m.timestamp) ELSE 0)

\* a step in which a store call found the store at capacity and evicted
EvictionStep == \E c \in storeCalls' \ storeCalls : c.pc = "evicted"

\* the records the step removed
Removed == {m \in Range(memories) : \A k \in DOMAIN memories' : memories'[k].id # m.id}

\* C37: a store call that finds n records at capacity removes exactly ceil(n/10)
\* of them, embeddings included, and no surviving record has a strictly lower
\* eviction score than a removed one
C37_EvictsLowestTenth ==
    [][EvictionStep
        => /\ Len(memories) >= memConfig.maxMemories
           /\ 10 * Cardinality(Removed) >= Len(memories)
           /\ 10 * (Cardinality(Removed) - 1) < Len(memories)
           /\ Len(memories') = Len(memories) - Cardinality(Removed)
           /\ \A r \in Removed : r.id \notin embeddings'
           /\ \A r \in Removed :
                 \A k \in DOMAIN memories' :
                     FlooredScore(memories'[k], today) >= FlooredScore(r, today)]_vars

\* C38: when evictLeastRelevant scores the records, the recency term of a record
\* of 30 days or more is 0: its score is that of relevance and access count alone
C38_RecencyFlooredAtZero ==
    [][EvictionStep
        => \A m \in Range(memories) :
              today - m.timestamp >= 30
                 => EvictionScore(m, today)
                       = 150 * m.relevanceScore + 9 * m.accessCount]_vars


\* C39: with embeddings disabled, a retrieve call on a store that holds records
\* returns min(limit, size) of them, ordered by a score whose similarity is the
\* keyword overlap of query and content
C39_DisabledRetrieveRanksByKeywords ==
    [][(RetrieveReturns /\ ~memConfig.enabled /\ memories # <<>>)
        => /\ Len(retrieval'.result) = Min({retrieval'.limit, Len(memories)})
           /\ retrieval'.result
                 = TopIds(memories, {}, retrieval'.query, retrieval'.limit, today)]_vars


\* C40: when an execution ends, averageTaskDuration is a finite number (nothing
\* was divided by a completedTasks of 0); a failed task leaves it unchanged and
\* a completed task of duration d makes it the mean of the completed durations,
\* (average * completed + d) / (completed + 1)
C40_AverageIsMeanOfCompleted ==
    [][\A e \in executing \ executing' :
          /\ metrics'.averageTaskDuration.kind = "finite"
          /\ metrics'.failedTasks = metrics.failedTasks + 1
                => metrics'.averageTaskDuration = metrics.averageTaskDuration
          /\ metrics'.completedTasks = metrics.completedTasks + 1
                => \E d \in Durations :
                      metrics'.averageTaskDuration
                          = DividedBy(Plus(Times(metrics.averageTaskDuration,
                                                 metrics.completedTasks), d),
                                      metrics.completedTasks + 1)]_vars

====
